---- MODULE Spec2Model ----
(***************************************************************************)
(* TeleNews: keyword news matching, per-subscriber delivery ledger and     *)
(* the retrying dispatcher (src/bot.py, src/database.py,                   *)
(* src/news_crawler.py).                                                   *)
(*                                                                         *)
(* The bot runs on one asyncio event loop.  A coroutine runs without       *)
(* interruption from one await to the next, so an action of the model is   *)
(* the code between two awaits (asyncio.sleep, bot.send_message,           *)
(* reply_text) of one coroutine.  The return of send_message_to_user is a  *)
(* step of its own, so that its result is part of the state.               *)
(***************************************************************************)
EXTENDS Integers, Sequences, FiniteSets, TLC

\* ------------------------------------------------------------------ bounds
MaxItems == 2          \* news items the search provider can ever return
MaxDrop == 12          \* the largest drop_percentage observed, in half percents
MaxTime == 3           \* the last time of day of the quiet-hours buttons
MaxPool == 16          \* the items one term can have in the pool of apply_operation
MaxNews == 4           \* the items of a list given to filter_similar_news

\* ------------------------------------------------------- program constants
Cap == 15              \* items per message
MaxRetries == 3        \* max_retries of send_message_to_user
BaseDelay == 2         \* base_delay of send_message_to_user
SimilarityThreshold == 55   \* similarity_threshold=0.55, in percent
MinimumLevel == 5      \* alerts start at a drop of 5 percent

\* ---------------------------------------------------------------- universe
Users == {"u1", "u2"}
Terms == {"A", "B"}
Items == 1..MaxItems
None == "None"

\* A keyword expression is the sequence of its blank-separated words.
Exprs == { <<"A">>, <<"A", "or", "B">>, <<"A", "and", "B">> }

\* the registrations the subscribers' commands can make
Registrable == { <<"u1", <<"A", "or", "B">> >> }

\* the registrations of two subscribers, one of them with an expression
\* for which apply_operation returns None
Subscriptions ==
  { <<"u1", <<"A", "AND", "B">> >>, <<"u1", <<"A", "or", "B">> >>, <<"u2", <<"B">> >> }

\* the provider outages a fetch can meet: the set of terms whose request fails
FailChoices == { {}, Terms }

\* The attributes of the items the provider serves.  DateOf(i) = 0 stands
\* for a pubDate that strptime cannot parse.
DateOf(i) == IF i = 1 THEN 0 ELSE i
ItemTerms(i) == IF i % 3 = 1 THEN {"A"} ELSE IF i % 3 = 2 THEN {"A", "B"} ELSE {"B"}
IsNaverUrl(i) == i % 2 = 0
\* calculate_similarity in percent: the titles of 2 and 3 are alike, and
\* those of 3 and 4, while those of 2 and 4 are not
TitleSimilarity(i, j) ==
  IF i = j THEN 100 ELSE IF {i, j} \in { {2, 3}, {3, 4} } THEN 60 ELSE 10

\* --------------------------------------------------------- sequence helpers
Range(s) == { s[n] : n \in DOMAIN s }
Take(s, n) == IF n <= 0 THEN << >> ELSE SubSeq(s, 1, IF n < Len(s) THEN n ELSE Len(s))
Reverse(s) == [n \in 1..Len(s) |-> s[Len(s) + 1 - n]]
Min2(a, b) == IF a < b THEN a ELSE b

RECURSIVE SetToSeq(_)
\* a set of numbers in ascending order
SetToSeq(S) ==
  IF S = {} THEN << >>
  ELSE LET m == CHOOSE x \in S : \A y \in S : x <= y
       IN <<m>> \o SetToSeq(S \ {m})

RECURSIVE Flatten(_)
Flatten(ss) == IF ss = << >> THEN << >> ELSE Head(ss) \o Flatten(Tail(ss))

RECURSIVE RemoveDuplicates(_)
\* keep the first occurrence of every url
RemoveDuplicates(news_list) ==
  IF news_list = << >> THEN << >>
  ELSE LET rest == RemoveDuplicates(SubSeq(news_list, 1, Len(news_list) - 1))
           last == news_list[Len(news_list)]
       IN IF last \in Range(rest) THEN rest ELSE Append(rest, last)

RECURSIVE InsertByDate(_, _)
\* insert x behind every element that is at least as recent (stable, newest first)
InsertByDate(sorted, x) ==
  IF sorted = << >> THEN <<x>>
  ELSE IF DateOf(Head(sorted)) >= DateOf(x)
       THEN <<Head(sorted)>> \o InsertByDate(Tail(sorted), x)
       ELSE <<x>> \o sorted

RECURSIVE StableSortDesc(_)
StableSortDesc(s) ==
  IF s = << >> THEN << >>
  ELSE InsertByDate(StableSortDesc(SubSeq(s, 1, Len(s) - 1)), s[Len(s)])

\* _sort_news_by_date: a date that parses is timezone-aware, one that does
\* not becomes datetime.now() (naive).  Comparing the two raises TypeError,
\* which the outer except turns into "keep the original order".  A list of
\* only unparsable dates gets strictly increasing now() keys and comes back
\* reversed.
SortNewsByDate(news_list) ==
  LET bad  == { n \in DOMAIN news_list : DateOf(news_list[n]) = 0 }
      good == DOMAIN news_list \ bad
  IN IF Len(news_list) <= 1 THEN news_list
     ELSE IF bad # {} /\ good # {} THEN news_list
     ELSE IF good = {} THEN Reverse(news_list)
     ELSE StableSortDesc(news_list)

\* _get_latest_news of the crawler: unparsable dates become datetime.min
\* (naive); a mixed list raises TypeError and the first element is returned.
GetLatestNews(news_list) ==
  LET bad  == { n \in DOMAIN news_list : DateOf(news_list[n]) = 0 }
      good == DOMAIN news_list \ bad
  IN IF bad # {} /\ good # {} /\ Len(news_list) > 1 THEN news_list[1]
     ELSE IF good = {} THEN news_list[1]
     ELSE StableSortDesc(news_list)[1]

\* ------------------------------------------------------ similarity clusters
RECURSIVE GroupSimilar(_, _, _)
\* step 1 of filter_similar_news: groups is a sequence of
\* [representative, similar]; an item joins the first group whose
\* representative is similar enough, else it opens a new group.
GroupSimilar(news_list, groups, threshold) ==
  IF news_list = << >> THEN groups
  ELSE LET news == Head(news_list)
           hit  == { g \in DOMAIN groups :
                       TitleSimilarity(news, groups[g].representative) >= threshold }
       IN IF hit = {}
          THEN GroupSimilar(Tail(news_list),
                   Append(groups, [representative |-> news, similar |-> <<news>>]),
                   threshold)
          ELSE LET g == CHOOSE x \in hit : \A y \in hit : x <= y
               IN GroupSimilar(Tail(news_list),
                      [groups EXCEPT ![g].similar = Append(@, news)], threshold)

\* step 2: the representative of a group is its latest Naver-hosted member,
\* or its latest member when none is Naver-hosted.
GroupRepresentative(group) ==
  LET naver_news == SelectSeq(group.similar, IsNaverUrl)
  IN IF naver_news # << >> THEN GetLatestNews(naver_news)
     ELSE GetLatestNews(group.similar)

\* a filter that counts only the representative
SimilarCountOne(group) == 1

\* representative['similar_count'] = len(all_similar)
SimilarCount(group) == Len(group.similar)

FilterSimilarNews(news_list, threshold) ==
  LET groups == GroupSimilar(news_list, << >>, threshold)
  IN [g \in DOMAIN groups |-> GroupRepresentative(groups[g])]

\* ------------------------------------------------------ keyword expressions
\* a containment test that tells upper case from lower case
ContainsExactCase(text, phrase) ==
  phrase = << >> \/ (Len(phrase) = 1 /\ phrase[1] \in text)

\* str.lower, and what re.IGNORECASE does to the operator words
Lower(tok) ==
  IF tok = "AND" THEN "and" ELSE IF tok = "OR" THEN "or"
  ELSE IF tok = "A" THEN "a" ELSE IF tok = "B" THEN "b"
  ELSE IF tok = "C" THEN "c" ELSE tok

\* `" and " in keyword.lower()`: an operator word with a blank on both sides
ContainsOp(keyword, op) == \E n \in 2..(Len(keyword) - 1) : Lower(keyword[n]) = op

RECURSIVE SplitAt(_, _, _, _, _, _)
\* keyword.split(" and "): case-sensitive, consumes the blanks around the word
SplitAt(keyword, op, n, cur, out, prevSep) ==
  IF n > Len(keyword) THEN Append(out, cur)
  ELSE IF keyword[n] = op /\ n > 1 /\ n < Len(keyword) /\ ~prevSep
       THEN SplitAt(keyword, op, n + 1, << >>, Append(out, cur), TRUE)
       ELSE SplitAt(keyword, op, n + 1, Append(cur, keyword[n]), out, FALSE)

\* TeleNewsBot.normalize_keyword: the base keywords of an expression
NormalizeKeyword(keyword) ==
  IF ContainsOp(keyword, "and") THEN SplitAt(keyword, "and", 1, << >>, << >>, FALSE)
  ELSE IF ContainsOp(keyword, "or") THEN SplitAt(keyword, "or", 1, << >>, << >>, FALSE)
  ELSE <<keyword>>

\* re.search(r'\b(and|or)\b', keyword, re.IGNORECASE)
HasWord(keyword, op) == \E n \in DOMAIN keyword : Lower(keyword[n]) = op
HasLogic(keyword) == HasWord(keyword, "and") \/ HasWord(keyword, "or")

\* NaverNewsCrawler.parse_keyword_expression: the words that are no operator
\* and no parenthesis, without repetitions
ParseKeywordExpression(keyword) ==
  IF ~HasLogic(keyword) THEN <<keyword>>
  ELSE LET IsWord(tok) == Lower(tok) \notin {"and", "or", "(", ")"}
           words == SelectSeq(keyword, IsWord)
       IN [n \in DOMAIN RemoveDuplicates(words) |-> <<RemoveDuplicates(words)[n]>>]

RECURSIVE RegexSplit(_, _, _, _, _)
\* re.split(r'\bop\b', expr, flags=re.IGNORECASE), every part stripped
RegexSplit(expr, op, n, cur, out) ==
  IF n > Len(expr) THEN Append(out, cur)
  ELSE IF Lower(expr[n]) = op
       THEN RegexSplit(expr, op, n + 1, << >>, Append(out, cur))
       ELSE RegexSplit(expr, op, n + 1, Append(cur, expr[n]), out)

\* `phrase.lower() in text_lower`: a text (title and description) is the
\* set of its words; it contains each of its words in any case, never a
\* phrase of several words, and the empty string always.
TextContains(text, phrase) ==
  \/ phrase = << >>
  \/ Len(phrase) = 1 /\ \E w \in text : Lower(w) = Lower(phrase[1])

RECURSIVE ReplaceGroups(_, _)
\* the `while '(' in working_expr` loop: the first innermost group in
\* parentheses, re.search(r'\(([^()]+)\)'), gives way to the value that
\* evaluate_simple finds for its content, until no group is left.
\* evaluate_simple splits at OR, then each part at AND; a split at a word
\* that does not occur leaves the one part.
ReplaceGroups(working_expr, text) ==
  LET groups == { g \in (DOMAIN working_expr) \X (DOMAIN working_expr) :
                    /\ working_expr[g[1]] = "(" /\ working_expr[g[2]] = ")"
                    /\ g[1] + 1 < g[2]
                    /\ \A k \in (g[1] + 1)..(g[2] - 1) :
                         working_expr[k] \notin {"(", ")"} }
      EvaluateSimple(expr) ==
        \E part \in Range(RegexSplit(expr, "or", 1, << >>, << >>)) :
          \A kw \in Range(RegexSplit(part, "and", 1, << >>, << >>)) :
            TextContains(text, kw)
  IN IF groups = {} THEN working_expr
     ELSE LET match == CHOOSE g \in groups : \A h \in groups : g[1] <= h[1]
          IN ReplaceGroups(
               SubSeq(working_expr, 1, match[1] - 1)
                 \o <<IF EvaluateSimple(SubSeq(working_expr, match[1] + 1, match[2] - 1))
                      THEN "True" ELSE "False">>
                 \o SubSeq(working_expr, match[2] + 1, Len(working_expr)),
               text)

\* NaverNewsCrawler.evaluate_keyword_expression: the groups in parentheses
\* first, then final_evaluate, which splits at OR if there is one, else at
\* AND, and looks each part up in the text unless it is a value
EvaluateKeywordExpression(expression, text) ==
  LET Value(part) == IF part = <<"True">> THEN TRUE
                     ELSE IF part = <<"False">> THEN FALSE
                     ELSE TextContains(text, part)
  IN IF ~HasLogic(expression) THEN TextContains(text, expression)
     ELSE \E expr \in {ReplaceGroups(expression, text)} :
            \E part \in Range(RegexSplit(expr, "or", 1, << >>, << >>)) :
              IF HasWord(expr, "or") THEN Value(part)
              ELSE \A kw \in Range(RegexSplit(part, "and", 1, << >>, << >>)) : Value(kw)

\* ------------------------------------------------------------------- state
VARIABLES
  keywords,      \* table keywords: set of <<user_id, keyword>>
  sent_news,     \* table sent_news: set of <<user_id, keyword, url>>
  old_news,      \* the rows of sent_news whose sent_at is more than 7 days ago
  blocked_users, \* users marked as having blocked the bot
  quiet_hours,   \* table quiet_hours: user_id -> [set, start_time, end_time, enabled]
  clock,         \* the time of day (KST)
  published,     \* items the search provider currently serves
  expired,       \* items whose pubDate is more than 7 days ago
  task,          \* the coroutines: the two scheduled cycles and a subscriber's handler
  delivered,     \* history: the <<user, keyword, url>> dispatched as a new item so far
  alert_levels,  \* table stock_alert_levels: rows [user_id, last_level, ath_price]
  pending_alerts,\* table pending_stock_alerts: rows [user_id, alert_level, ath_price, info_ath]
  nasdaq_off,    \* table nasdaq_alert_settings: the users with enabled = FALSE
  market,        \* what get_nasdaq_info observes: [ath, level]
  alerted,       \* history: the <<user, ath, level>> of the alerts sent successfully
  call           \* a call of a library function by itself: [fn, args, value]

vars == <<keywords, sent_news, old_news, blocked_users, quiet_hours, clock,
          published, expired, task, delivered, alert_levels, pending_alerts,
          nasdaq_off, market, alerted, call>>

alertVars == <<alert_levels, pending_alerts, nasdaq_off, market, alerted>>

dbVars == <<keywords, sent_news, old_news, blocked_users, quiet_hours>>
envVars == <<clock, published, expired>>

Tasks == {"sched", "manual", "stock"}
Times == {0, 1}
QuietChoices == { <<1, 1>> }

\* ------------------------------------------------------- the search provider
\* The state of the provider, p: the items it serves and those among them
\* that are older than 7 days.
ProviderStates ==
  UNION { { [published |-> P, expired |-> E] : E \in SUBSET P } : P \in SUBSET Items }

\* What the Naver API answers to a query: the served items whose text has
\* every query term, in the provider's order, at most `display` of them.
ProviderItems(p, query, display) ==
  Take(SetToSeq({ i \in p.published : query \subseteq ItemTerms(i) }), display)

\* the 7-day filter: a pubDate that does not parse keeps the item
WithinWindow(p, i) == DateOf(i) = 0 \/ i \notin p.expired

\* NaverNewsCrawler._search_single_keyword; `fail` is the set of lead terms
\* whose HTTP request raises during this call
SearchSingleKeyword(p, lead, others, max_count, fail) ==
  LET Recent(i) == WithinWindow(p, i)
  IN IF lead \in fail THEN << >>
     ELSE SelectSeq(ProviderItems(p, {lead} \cup others, Min2(max_count, 30)), Recent)

RECURSIVE OrCollect(_, _, _, _, _, _)
\* the OR mode of search_news: per word, search, cluster, drop the urls
\* already seen; returns the per-word lists (keyword_news)
OrCollect(p, words, n, seen, max_results, fail) ==
  IF n > Len(words) THEN << >>
  ELSE LET results  == SearchSingleKeyword(p, words[n][1], {}, max_results * 2, fail)
           filtered == FilterSimilarNews(results, SimilarityThreshold)
           IsFresh(i) == i \notin seen
           unique_filtered == SelectSeq(filtered, IsFresh)
       IN <<unique_filtered>> \o
          OrCollect(p, words, n + 1, seen \cup Range(unique_filtered), max_results, fail)

\* search_news, simple OR: slots proportional to each word's share, at least
\* one per non-empty word, the rest to the first word with the most results
\* if it has that many.
CrawlerAllocated(keyword_news, max_results) ==
  LET total_count == Len(Flatten(keyword_news))
      take(k) == IF keyword_news[k] = << >> THEN 0
                 ELSE LET c == (Len(keyword_news[k]) * max_results) \div total_count
                      IN IF c = 0 THEN 1 ELSE c
      RECURSIVE Sum(_)
      Sum(k) == IF k = 0 THEN 0 ELSE take(k) + Sum(k - 1)
      total_allocated == Sum(Len(keyword_news))
      max_kw == CHOOSE k \in DOMAIN keyword_news :
                  /\ \A j \in DOMAIN keyword_news : Len(keyword_news[j]) <= Len(keyword_news[k])
                  /\ \A j \in 1..(k - 1) : Len(keyword_news[j]) < Len(keyword_news[k])
      remaining == max_results - total_allocated
  IN [k \in DOMAIN keyword_news |->
        IF /\ total_allocated < max_results
           /\ k = max_kw
           /\ Len(keyword_news[k]) >= take(k) + remaining
        THEN take(k) + remaining ELSE take(k)]

\* NaverNewsCrawler.search_news against the provider state p
SearchNews(p, keyword, max_results, fail) ==
  LET words == ParseKeywordExpression(keyword)
      has_logic == HasLogic(keyword)
  IN IF has_logic /\ HasWord(keyword, "or")
     THEN LET keyword_news == OrCollect(p, words, 1, {}, max_results, fail)
              all_news == Flatten(keyword_news)
              Matches(i) == EvaluateKeywordExpression(keyword, ItemTerms(i))
          IN IF HasWord(keyword, "and") THEN Take(SelectSeq(all_news, Matches), max_results)
             ELSE IF all_news = << >> THEN << >>
             ELSE LET allocated == CrawlerAllocated(keyword_news, max_results)
                  IN Take(Flatten([k \in DOMAIN keyword_news |->
                                      Take(keyword_news[k], allocated[k])]), max_results)
     ELSE LET lead == IF has_logic THEN words[1] ELSE keyword
              api_fetch_count == IF has_logic THEN Min2(max_results * 3, 50)
                                 ELSE Min2(max_results * 2, 30)
              Keep(i) == (has_logic => EvaluateKeywordExpression(keyword, ItemTerms(i)))
                         /\ WithinWindow(p, i)
          IN IF Len(lead) # 1 \/ lead[1] \in fail THEN << >>
             ELSE Take(FilterSimilarNews(
                         SelectSeq(ProviderItems(p, {lead[1]}, api_fetch_count), Keep),
                         SimilarityThreshold), max_results)

\* the keywords the bot passes to get_latest_news: base keywords, and
\* whole expressions on the paths that have no caller
FetchKeywords ==
  Exprs \cup UNION { Range(NormalizeKeyword(e)) :
                       e \in Exprs \cup { r[2] : r \in Subscriptions } }

\* search_news for every provider state, keyword, count and failure set the
\* bot can ask with (15 from the check paths, 50 from the seen-news paths)
SearchResults ==
  [p \in ProviderStates, keyword \in FetchKeywords, max_results \in {Cap, 50},
   fail \in FailChoices |-> SearchNews(p, keyword, max_results, fail)]

\* the provider as it is now
Provider == [published |-> published, expired |-> expired]

\* get_latest_news
GetLatestNewsFor(keyword, last_check_count, fail) ==
  SearchResults[Provider, keyword, last_check_count, fail]

\* ---------------------------------------------------------- apply_operation
MapGet(base_news_map, base_kw) ==
  IF base_kw \in DOMAIN base_news_map THEN base_news_map[base_kw] ELSE << >>

RECURSIVE AppendNew(_, _)
\* append the items of `selected` that `result` does not hold yet, up to Cap
AppendNew(result, selected) ==
  IF selected = << >> \/ Len(result) >= Cap THEN result
  ELSE AppendNew(IF Head(selected) \in Range(result) THEN result
                 ELSE Append(result, Head(selected)), Tail(selected))

RECURSIVE OrAllocate(_, _, _, _)
\* apply_operation, step 4: every base keyword contributes the first
\* int(len/total * 15) of its items
OrAllocate(keys, base_news_map, total_news, result) ==
  IF keys = << >> \/ Len(result) >= Cap THEN result
  ELSE LET news_list == MapGet(base_news_map, Head(keys))
           target_count == (Len(news_list) * Cap) \div total_news
       IN IF news_list = << >>
          THEN OrAllocate(Tail(keys), base_news_map, total_news, result)
          ELSE OrAllocate(Tail(keys), base_news_map, total_news,
                          AppendNew(result, Take(news_list, target_count)))

\* TeleNewsBot.apply_operation.  The result is [none, list]: none is TRUE
\* when the function falls off its end and returns None (an " and "
\* expression whose split yields a single base keyword).
ApplyOperation(keyword, base_news_map, fail) ==
  LET base_keywords == NormalizeKeyword(keyword)
      Compound(a, b) == SearchSingleKeyword(Provider, a[1], Range(b), 100, fail)
      Cluster(all_news) ==
        Take(FilterSimilarNews(RemoveDuplicates(all_news), SimilarityThreshold), Cap)
  IN IF ContainsOp(keyword, "and")
     THEN IF Len(base_keywords) = 2
          THEN [none |-> FALSE,
                list |-> Cluster(Compound(base_keywords[1], base_keywords[2]) \o
                                 Compound(base_keywords[2], base_keywords[1]))]
          ELSE IF Len(base_keywords) >= 3
          THEN [none |-> FALSE,
                list |-> Cluster(
                  Compound(base_keywords[1], base_keywords[2] \o base_keywords[3]) \o
                  Compound(base_keywords[2], base_keywords[1] \o base_keywords[3]) \o
                  Compound(base_keywords[3], base_keywords[1] \o base_keywords[2]))]
          ELSE [none |-> TRUE, list |-> << >>]
     ELSE IF ContainsOp(keyword, "or")
     THEN LET all_news == Flatten([n \in DOMAIN base_keywords |->
                                     MapGet(base_news_map, base_keywords[n])])
              unique_news == RemoveDuplicates(all_news)
              keys == RemoveDuplicates(base_keywords)
              total_news == Len(Flatten([n \in DOMAIN keys |-> MapGet(base_news_map, keys[n])]))
          IN IF Len(unique_news) <= Cap THEN [none |-> FALSE, list |-> unique_news]
             ELSE [none |-> FALSE,
                   list |-> Take(OrAllocate(keys, base_news_map, total_news, << >>), Cap)]
     ELSE [none |-> FALSE, list |-> Take(MapGet(base_news_map, base_keywords[1]), Cap)]

\* get_unique_base_keywords: the base keywords of all rows
UniqueBaseKeywords(user_keywords) ==
  UNION { Range(NormalizeKeyword(row[2])) : row \in user_keywords }

\* --------------------------------------------------------------- the ledger
\* Database.is_news_sent on the table contents `rows`
IsNewsSent(rows, user_id, keyword, url) == <<user_id, keyword, url>> \in rows

\* an is_quiet_time without the branch for a window that passes midnight
QuietTimeNoWrap(user_id) ==
  /\ quiet_hours[user_id].set /\ quiet_hours[user_id].enabled
  /\ quiet_hours[user_id].start_time <= clock
  /\ clock <= quiet_hours[user_id].end_time

\* a bot for which it is never quiet time
NeverQuietTime(user_id) == FALSE

\* TeleNewsBot.is_quiet_time; times of day compare as 'HH:MM' strings do
IsQuietTime(user_id) ==
  LET q == quiet_hours[user_id]
  IN IF ~q.set \/ ~q.enabled THEN FALSE
     ELSE IF q.start_time <= q.end_time
          THEN q.start_time <= clock /\ clock <= q.end_time
          ELSE clock >= q.start_time \/ clock <= q.end_time

\* a filter that lets every item through
FilterNothing(rows, user_id, keyword, news_list) == news_list

\* the is_news_sent loop that opens _send_news_to_user
FilterUnseen(rows, user_id, keyword, news_list) ==
  LET Unseen(i) == ~IsNewsSent(rows, user_id, keyword, i)
  IN SelectSeq(news_list, Unseen)

\* _get_additional_news from the fetched all_news on: without duplicates,
\* sorted by date, the already-sent items, at most needed_count
SelectSeen(rows, user_id, keyword, all_news, needed_count) ==
  LET unique_news == SortNewsByDate(RemoveDuplicates(all_news))
      Seen(i) == IsNewsSent(rows, user_id, keyword, i)
  IN Take(SelectSeq(unique_news, Seen), needed_count)

\* TeleNewsBot._get_additional_news: re-fetch every base keyword, keep the
\* already-sent items, newest first, at most needed_count
GetAdditionalNews(rows, user_id, keyword, base_keywords, needed_count, fail) ==
  SelectSeen(rows, user_id, keyword,
             Flatten([n \in DOMAIN base_keywords |->
                        GetLatestNewsFor(base_keywords[n], 50, fail)]),
             needed_count)

\* ------------------------------------------------ _send_news_to_user, part 1
\* `if additional_news: new_news = additional_news`
OrElse(additional_news, new_news) ==
  IF additional_news # << >> THEN additional_news ELSE new_news

\* lines 1361-1373: when the filter leaves nothing of a non-empty list,
\* new_news becomes the already-seen items, if there are any
FillWhenEmpty(rows, user_id, keyword, news_list, new_news, fail) ==
  IF new_news = << >> /\ news_list # << >>
  THEN OrElse(GetAdditionalNews(rows, user_id, keyword, NormalizeKeyword(keyword),
                                Cap, fail), new_news)
  ELSE new_news

\* lines 1384-1386: extend with the additional items and sort again
Extend(new_news, additional_news) ==
  IF additional_news # << >> THEN SortNewsByDate(new_news \o additional_news)
  ELSE new_news

\* lines 1379-1387: fewer than 15 items are topped up with already-seen items
TopUp(rows, user_id, keyword, new_news, fail) ==
  IF Len(new_news) < Cap
  THEN Extend(new_news,
              GetAdditionalNews(rows, user_id, keyword, NormalizeKeyword(keyword),
                                Cap - Len(new_news), fail))
  ELSE new_news

\* lines 1375-1387: sort, then top up
SortAndTopUp(rows, user_id, keyword, new_news, fail) ==
  IF new_news = << >> THEN new_news
  ELSE TopUp(rows, user_id, keyword, SortNewsByDate(new_news), fail)

\* lines 1448-1498: the seen-only message of a manual check
SeenOnly(rows, user_id, keyword, manual_check, fail) ==
  IF manual_check
  THEN GetAdditionalNews(rows, user_id, keyword, NormalizeKeyword(keyword), Cap, fail)
  ELSE << >>

\* nothing is sent and nothing is fetched
NoPlan == [send |-> FALSE, site |-> "none", batch |-> << >>, unseen |-> {},
           fetched |-> << >>]

\* lines 1349 and 1361-1501: what is sent, if anything, and the
\* get_latest_news calls made on the way.  filtered is the result of the
\* unseen filter, filled the list at line 1375, new_news the list at line
\* 1389, seen_news the list at line 1454.  Each of the three
\* _get_additional_news calls (lines 1369, 1382, 1452) fetches every base
\* keyword of the expression.
Decide(user_id, base_keywords, news_list, manual_check, filtered, filled, new_news, seen_news) ==
  LET fetches ==
        (IF filtered = << >> /\ news_list # << >> THEN base_keywords ELSE << >>)
        \o (IF filled # << >> /\ Len(filled) < Cap THEN base_keywords ELSE << >>)
        \o (IF new_news = << >> /\ manual_check THEN base_keywords ELSE << >>)
  IN IF IsQuietTime(user_id) THEN NoPlan
     ELSE IF new_news # << >>
          THEN [send |-> TRUE, site |-> "new", batch |-> new_news,
                unseen |-> Range(filtered), fetched |-> fetches]
     ELSE IF seen_news # << >>
          THEN [send |-> TRUE, site |-> "seen", batch |-> seen_news,
                unseen |-> {}, fetched |-> fetches]
     ELSE [NoPlan EXCEPT !.fetched = fetches]

\* _send_news_to_user from line 1375 on
PlanFilled(rows, user_id, keyword, news_list, manual_check, c, filtered, filled) ==
  Decide(user_id, NormalizeKeyword(keyword), news_list, manual_check, filtered,
         filled, SortAndTopUp(rows, user_id, keyword, filled, c.f2),
         SeenOnly(rows, user_id, keyword, manual_check, c.f3))

\* _send_news_to_user from the result of the unseen filter on
PlanFrom(rows, user_id, keyword, news_list, manual_check, c, filtered) ==
  PlanFilled(rows, user_id, keyword, news_list, manual_check, c, filtered,
             FillWhenEmpty(rows, user_id, keyword, news_list, filtered, c.f1))

\* Everything _send_news_to_user does before it awaits the send: the quiet
\* check, the unseen filter, the two top-ups with already-seen items and,
\* when nothing is left, the seen-only message of a manual check.  c.f1,
\* c.f2, c.f3 are the failing fetches of the three _get_additional_news
\* calls.  Result: [send, site, batch, unseen, fetched].
SendNewsPlan(rows, user_id, keyword, news_list, manual_check, c) ==
  PlanFrom(rows, user_id, keyword, news_list, manual_check, c,
           FilterUnseen(rows, user_id, keyword, news_list))

\* ------------------------------------------------------------------- tasks
\* A task record is a coroutine suspended at an await (pc "fetch_sleep",
\* "loading", "m_fetch_sleep", "ss_fetch_sleep", "send"), or one whose
\* send_message_to_user has just returned (pc "returned"), or no coroutine
\* (pc "idle").
IdleTask ==
  [pc |-> "idle", user |-> None, usersLeft |-> << >>, kwsLeft |-> << >>,
   baseLeft |-> << >>, map |-> << >>, keyword |-> << >>, all_news |-> << >>,
   site |-> "none", batch |-> << >>, unseen |-> {}, attempt |-> 0,
   log |-> << >>, delays |-> << >>, result |-> FALSE, level |-> 0, ath |-> 0,
   ath_price |-> 0, fetched |-> << >>, item_keyword |-> << >>]

\* the tables, the provider and the coroutines after construction
Constructed ==
  /\ keywords = {}
  /\ sent_news = {}
  /\ old_news = {}
  /\ blocked_users = {}
  /\ quiet_hours = [u \in Users |->
                      [set |-> FALSE, start_time |-> 0, end_time |-> 0, enabled |-> FALSE]]
  /\ published = {}
  /\ expired = {}
  /\ task = [t \in Tasks |-> IdleTask]
  /\ delivered = {}
  /\ alert_levels = {}
  /\ pending_alerts = {}
  /\ nasdaq_off = {}
  /\ market = [ath |-> 100, drop_percentage |-> 9]
  /\ alerted = {}

\* the bot after construction: no library function is called by itself
Init == Constructed /\ clock = 0 /\ call = [fn |-> None]

\* send_message_to_user has returned in some task and that task has not yet
\* reached its next await: nothing else runs on the event loop
Returning == \E t \in Tasks : task[t].pc \in {"returned", "raised"}

\* the failing fetches of one synchronous segment: of apply_operation's
\* compound searches and get_latest_news calls (fail) and of the three
\* _get_additional_news calls (f1, f2, f3)
Choices == [fail : FailChoices, f1 : FailChoices, f2 : FailChoices, f3 : FailChoices]

\* the choices of a segment that calls get_latest_news or apply_operation
\* and makes no _get_additional_news call
FetchChoices == { c \in Choices : c.f1 = {} /\ c.f2 = {} /\ c.f3 = {} }

\* the choice of a segment that asks the provider nothing
NoChoice == { c \in FetchChoices : c.fail = {} }

\* the orders in which a SELECT without ORDER BY can return the rows S
Orderings(S) == { s \in [1..Cardinality(S) -> S] : Range(s) = S }

\* ------------------------------------------------------------- environment
\* A run of either coroutine takes seconds.  The catalogue of the provider
\* and the age of the ledger rows change on the scale of hours and days, so
\* they change between runs, while no coroutine is suspended.
Quiescent == \A t \in Tasks : task[t].pc = "idle"

\* the provider starts serving an item
Publish(i) ==
  /\ Quiescent
  /\ i \notin published
  /\ published' = published \cup {i}
  /\ UNCHANGED <<dbVars, clock, expired, task, delivered, call>>
  /\ UNCHANGED alertVars

\* Seven days pass since item i was last sent: its ledger rows have a
\* sent_at behind NOW() - 7 days, and its pubDate, which is no later, is
\* out of the 7-day window too.
AgeItem(i) ==
  /\ Quiescent
  /\ i \in published
  /\ i \notin expired \/ \E r \in sent_news \ old_news : r[3] = i
  /\ expired' = expired \cup {i}
  /\ old_news' = old_news \cup { r \in sent_news : r[3] = i }
  /\ UNCHANGED <<keywords, sent_news, blocked_users, quiet_hours, clock, published,
                 task, delivered, call>>
  /\ UNCHANGED alertVars

Tick ==
  /\ ~Returning
  /\ clock' = (clock + 1) % Cardinality(Times)
  /\ UNCHANGED <<dbVars, published, expired, task, delivered, call>>
  /\ UNCHANGED alertVars

\* ----------------------------------------------------- subscriber commands
\* The Application handles one update at a time (concurrent_updates is not
\* set), so a command runs only while no manual check is in progress.
HandlerFree == task["manual"].pc = "idle" /\ ~Returning

\* add_keyword_command: unblock_user_if_needed, then Database.add_keyword
\* (UNIQUE(user_id, keyword): adding an existing row changes nothing)
AddKeyword(user_id, keyword) ==
  /\ HandlerFree
  /\ blocked_users' = blocked_users \ {user_id}
  /\ keywords' = keywords \cup {<<user_id, keyword>>}
  /\ UNCHANGED <<sent_news, old_news, quiet_hours, envVars, task, delivered, call>>
  /\ UNCHANGED alertVars

\* remove_keyword_command / Database.remove_keyword
RemoveKeyword(user_id, keyword) ==
  /\ HandlerFree
  /\ <<user_id, keyword>> \in keywords
  /\ keywords' = keywords \ {<<user_id, keyword>>}
  /\ UNCHANGED <<sent_news, old_news, blocked_users, quiet_hours, envVars, task,
                 delivered, call>>
  /\ UNCHANGED alertVars

\* the quiet-hours buttons / Database.set_quiet_hours
SetQuietHours(user_id, w) ==
  /\ HandlerFree
  /\ quiet_hours' = [quiet_hours EXCEPT ![user_id] =
                       [set |-> TRUE, start_time |-> w[1], end_time |-> w[2],
                        enabled |-> TRUE]]
  /\ UNCHANGED <<keywords, sent_news, old_news, blocked_users, envVars, task,
                 delivered, call>>
  /\ UNCHANGED alertVars

\* ------------------------------------------------------ the scheduled cycle
\* a cleanup that deletes every row, whatever its age
CleanupEverything(rows, old) == {}

\* Database.cleanup_old_news(days=7): delete the rows older than 7 days
CleanupOldNews(rows, old) == rows \ old

\* get_all_user_keywords_except_blocked
UserKeywordsExceptBlocked == { row \in keywords : row[1] \notin blocked_users }

\* Database.get_keywords
GetKeywords(user_id) == { row[2] : row \in { r \in keywords : r[1] = user_id } }

RECURSIVE UserKeywordMap(_, _)
\* step 4 of check_news_updates: the rows grouped by user, a dict in
\* insertion order, as a sequence of <<user_id, keywords>>
UserKeywordMap(user_keywords, acc) ==
  IF user_keywords = << >> THEN acc
  ELSE UserKeywordMap(Tail(user_keywords),
         IF \E n \in DOMAIN acc : acc[n][1] = Head(user_keywords)[1]
         THEN [n \in DOMAIN acc |->
                 IF acc[n][1] = Head(user_keywords)[1]
                 THEN <<acc[n][1], Append(acc[n][2], Head(user_keywords)[2])>>
                 ELSE acc[n]]
         ELSE Append(acc, <<Head(user_keywords)[1], <<Head(user_keywords)[2]>> >>))

\* start the dispatch of a planned batch: the task awaits bot.send_message
StartSend(tk, plan) ==
  [tk EXCEPT !.pc = "send", !.site = plan.site, !.batch = plan.batch,
             !.unseen = plan.unseen, !.attempt = 0, !.log = << >>,
             !.delays = << >>, !.result = FALSE, !.baseLeft = << >>,
             !.all_news = << >>]

\* forget the finished dispatch
ClearSend(tk) ==
  [tk EXCEPT !.site = "none", !.batch = << >>, !.unseen = {}, !.attempt = 0,
             !.log = << >>, !.delays = << >>, !.result = FALSE]

\* a fetch loop in which one failed request empties the whole base_news_map
FetchAllOrNothing(tk, fail) ==
  [tk EXCEPT !.map = IF Head(tk.baseLeft)[1] \in fail
                     THEN [base_kw \in DOMAIN @ \cup {Head(tk.baseLeft)} |-> << >>]
                     ELSE (Head(tk.baseLeft) :>
                             GetLatestNewsFor(Head(tk.baseLeft), Cap, fail)) @@ @,
             !.baseLeft = Tail(@),
             !.fetched = Append(@, Head(tk.baseLeft))]

\* one round of a fetch loop: get_latest_news(base_kw, 15) of the next base
\* keyword into base_news_map; fetched is the history of the base keywords
\* the task has called get_latest_news with since its fetch loop began
FetchNext(tk, fail) ==
  [tk EXCEPT !.map = (Head(tk.baseLeft) :>
                        GetLatestNewsFor(Head(tk.baseLeft), Cap, fail)) @@ @,
             !.baseLeft = Tail(@),
             !.fetched = Append(@, Head(tk.baseLeft))]

\* the first round of a fetch loop over base_keywords
FetchFirst(tk, base_keywords, fail) ==
  FetchNext([tk EXCEPT !.map = << >>, !.baseLeft = base_keywords, !.fetched = << >>,
                       !.item_keyword = << >>],
            fail)

RECURSIVE CycleContinue(_, _, _)
\* a cycle that the exception of one subscriber ends
CycleKeywordAborting(tk, rows, c, combined_news, plan) ==
  IF combined_news.none THEN IdleTask
  ELSE IF combined_news.list = << >> THEN CycleContinue(tk, rows, c)
  ELSE IF plan.send THEN StartSend([tk EXCEPT !.fetched = @ \o plan.fetched], plan)
  ELSE CycleContinue([tk EXCEPT !.fetched = @ \o plan.fetched], rows, c)

\* lines 1162-1173 for one keyword: a None from apply_operation makes
\* len(combined_news) raise, and the per-user except ends this user's
\* round; news to send suspends the task in the send; else the next keyword
CycleKeyword(tk, rows, c, combined_news, plan) ==
  IF combined_news.none THEN CycleContinue([tk EXCEPT !.kwsLeft = << >>], rows, c)
  ELSE IF combined_news.list = << >> THEN CycleContinue(tk, rows, c)
  ELSE IF plan.send THEN StartSend([tk EXCEPT !.fetched = @ \o plan.fetched], plan)
  ELSE CycleContinue([tk EXCEPT !.fetched = @ \o plan.fetched], rows, c)

\* lines 1165-1171: news['_keyword'] = keyword for every item of
\* combined_news, then _send_news_to_user(user_id, keyword, combined_news,
\* False), when combined_news is not empty.  item_keyword is the '_keyword'
\* field of the items of base_news_map: the items an OR or a single term
\* yields are the dicts of the pool, those of an AND are fetched anew.
CycleApplied(tk, rows, c, combined_news) ==
  CycleKeyword([tk EXCEPT !.item_keyword =
                  IF ContainsOp(tk.keyword, "and") THEN @
                  ELSE [i \in DOMAIN @ \cup Range(combined_news.list) |->
                          IF i \in Range(combined_news.list) THEN tk.keyword ELSE @[i]]],
               rows, c, combined_news,
               SendNewsPlan(rows, tk.user, tk.keyword, combined_news.list, FALSE, c))

\* The loops of check_news_updates (step 5) from the current position up to
\* the next await, which is the send inside _send_news_to_user, or to the
\* end of the cycle.
CycleContinue(tk, rows, c) ==
  IF tk.kwsLeft # << >>
  THEN CycleApplied([tk EXCEPT !.kwsLeft = Tail(@), !.keyword = Head(tk.kwsLeft)],
                    rows, c, ApplyOperation(Head(tk.kwsLeft), tk.map, c.fail))
  ELSE IF tk.usersLeft # << >>
  THEN IF IsQuietTime(Head(tk.usersLeft)[1])
       THEN CycleContinue([tk EXCEPT !.usersLeft = Tail(@)], rows, c)
       ELSE CycleContinue([tk EXCEPT !.usersLeft = Tail(@),
                                     !.user = Head(tk.usersLeft)[1],
                                     !.kwsLeft = Head(tk.usersLeft)[2]], rows, c)
  ELSE IdleTask

\* list(base_keywords) of get_unique_base_keywords: one of the orders the
\* set iteration can give (a fetch does not depend on the fetches before it)
BaseKeywordList(user_keywords) ==
  CHOOSE s \in Orderings(UniqueBaseKeywords(Range(user_keywords))) : TRUE

\* check_news_updates up to its first await: cleanup, collect the keywords
\* of the users that are not blocked, derive the base keywords, fetch the
\* first of them and sleep.  user_keywords is the order the rows come in;
\* cleaned is false when cleanup_old_news fails, which it reports by
\* returning 0 with no row deleted.
CycleStart(user_keywords, fail, cleaned) ==
  /\ ~Returning
  /\ task["sched"].pc = "idle"
  /\ user_keywords \in Orderings(UserKeywordsExceptBlocked)
  /\ sent_news' = IF cleaned THEN CleanupOldNews(sent_news, old_news) ELSE sent_news
  /\ old_news' = IF cleaned THEN {} ELSE old_news
  /\ IF user_keywords = << >>
     THEN UNCHANGED task
     ELSE task' = [task EXCEPT !["sched"] =
                     FetchFirst([IdleTask EXCEPT
                                   !.pc = "fetch_sleep",
                                   !.usersLeft = UserKeywordMap(user_keywords, << >>)],
                                BaseKeywordList(user_keywords), fail)]
  /\ UNCHANGED <<keywords, blocked_users, quiet_hours, envVars, delivered, call>>
  /\ UNCHANGED alertVars

\* asyncio.sleep(0.3) of the fetch loop ends: the next get_latest_news and
\* sleep, or the per-user loop up to its first send
CycleFetchWake(c) ==
  /\ ~Returning
  /\ task["sched"].pc = "fetch_sleep"
  /\ task' = [task EXCEPT !["sched"] =
                IF @.baseLeft # << >> THEN FetchNext(@, c.fail)
                ELSE CycleContinue(@, sent_news, c)]
  /\ UNCHANGED <<dbVars, envVars, delivered, call>>
  /\ UNCHANGED alertVars

\* ----------------------------------------------------- send_message_to_user
\* What bot.send_message can raise, as (type(e).__name__, str(e)).
Errors ==
  { [error_type |-> "TimedOut",     error_str |-> "Timed out"],
    [error_type |-> "NetworkError", error_str |-> "httpx.ConnectError: connection failed"],
    [error_type |-> "Forbidden",    error_str |-> "Forbidden: bot was blocked by the user"],
    [error_type |-> "BadRequest",   error_str |-> "Chat not found"] }

\* the python `needle in text` for the texts and needles that occur
Substrings ==
  { <<"TimedOut", "TimedOut">>, <<"NetworkError", "NetworkError">>,
    <<"httpx.ConnectError: connection failed", "ConnectError">>,
    <<"Forbidden", "Forbidden">>,
    <<"Forbidden: bot was blocked by the user", "bot was blocked">> }
In(needle, text) == <<text, needle>> \in Substrings

RetryableNames ==
  { "ConnectError", "NetworkError", "TimedOut", "TimeoutError", "ConnectionError",
    "ReadTimeout", "ConnectTimeout", "RemoteDisconnected", "BadGateway",
    "ServiceUnavailable" }

IsBlockedError(e) == In("bot was blocked", e.error_str) \/ In("Forbidden", e.error_type)
IsRetryableError(e) ==
  \E err \in RetryableNames : In(err, e.error_str) \/ In(err, e.error_type)

ErrorClass(e) ==
  IF IsBlockedError(e) THEN "blocked"
  ELSE IF IsRetryableError(e) THEN "transient" ELSE "other"

\* a loop that tries again after any error that is not a block
WillRetryAnyError(attempt, e) == ~IsBlockedError(e) /\ attempt < MaxRetries - 1

\* will the loop of send_message_to_user try again after error e on this attempt
WillRetry(attempt, e) ==
  ~IsBlockedError(e) /\ attempt < MaxRetries - 1 /\ IsRetryableError(e)

RECURSIVE Pow2(_)
Pow2(n) == IF n = 0 THEN 1 ELSE 2 * Pow2(n - 1)

\* a backoff that starts at twice the base delay
WaitTimeDoubled(attempt) == BaseDelay * Pow2(attempt + 1)

\* wait_time = base_delay * (2 ** attempt)
WaitTime(attempt) == BaseDelay * Pow2(attempt)

\* the ledger keys of the items a task's batch shows as new
UnseenKeys(tk) == { <<tk.user, tk.keyword, i>> : i \in tk.unseen }

\* the alert a task's message announces, if it is a threshold alert
AlertKeys(tk) ==
  IF tk.site \in {"alert", "flush"} THEN { <<tk.user, tk.ath, tk.level>> } ELSE {}

\* the ledger keys of all items of a task's batch
BatchKeys(tk) == { <<tk.user, tk.keyword, i>> : i \in Range(tk.batch) }

\* bot.send_message succeeds, the message is out; after
\* asyncio.sleep(0.5) send_message_to_user returns True
SendOk(t) ==
  /\ ~Returning
  /\ task[t].pc = "send"
  /\ task' = [task EXCEPT ![t].pc = "returned", ![t].result = TRUE,
                          ![t].log = Append(@, "ok")]
  /\ delivered' = delivered \cup UnseenKeys(task[t])
  /\ UNCHANGED call
  /\ alerted' = alerted \cup AlertKeys(task[t])
  /\ UNCHANGED <<dbVars, envVars, alert_levels, pending_alerts, nasdaq_off, market>>

\* Database.add_blocked_user
AddBlockedUser(blocked, user_id) == blocked \cup {user_id}

\* a handler of the error that marks nobody
MarkNobody(blocked, user_id, e) == blocked

\* `if 'bot was blocked' in error_str or 'Forbidden' in error_type:
\* self.db.add_blocked_user(user_id, 'bot_blocked')`
MarkIfBlocked(blocked, user_id, e) ==
  IF IsBlockedError(e) THEN AddBlockedUser(blocked, user_id) ELSE blocked

\* bot.send_message raises e: mark the user blocked and return False, or
\* sleep wait_time and make the next attempt, or return False
SendError(t, e) ==
  /\ ~Returning
  /\ task[t].pc = "send"
  /\ blocked_users' = MarkIfBlocked(blocked_users, task[t].user, e)
  /\ IF IsBlockedError(e)
     THEN task' = [task EXCEPT ![t].pc = "returned", ![t].result = FALSE,
                               ![t].log = Append(@, ErrorClass(e))]
     ELSE IF WillRetry(task[t].attempt, e)
     THEN task' = [task EXCEPT ![t].attempt = @ + 1,
                               ![t].log = Append(@, ErrorClass(e)),
                               ![t].delays = Append(@, WaitTime(task[t].attempt))]
     ELSE task' = [task EXCEPT ![t].pc = "returned", ![t].result = FALSE,
                               ![t].log = Append(@, ErrorClass(e))]
  /\ UNCHANGED <<keywords, sent_news, old_news, quiet_hours, envVars, delivered, call>>
  /\ UNCHANGED alertVars

\* The blocked branch when `self.db.add_blocked_user(user_id, 'bot_blocked')`
\* raises: the call is made inside the except block of send_message_to_user
\* and nothing encloses it, so the exception leaves the coroutine before
\* `return False` (the Database class of database.py defines no such
\* attribute).
SendMarkRaises(t, e) ==
  /\ ~Returning
  /\ task[t].pc = "send"
  /\ IsBlockedError(e)
  /\ task' = [task EXCEPT ![t].pc = "raised", ![t].log = Append(@, ErrorClass(e))]
  /\ UNCHANGED <<dbVars, envVars, delivered, call>>
  /\ UNCHANGED alertVars

\* --------------------------------------------------------- the manual check
Notice(site) == [site |-> site, batch |-> << >>, unseen |-> {}]

\* The keyword loop of check_news_for_user(manual_check=True) from its head
\* up to the next await: the sleep after the first get_latest_news of the
\* next keyword; or the end of the check.
ManualContinue(tk, c) ==
  IF tk.kwsLeft = << >> THEN IdleTask
  ELSE FetchFirst([ClearSend(tk) EXCEPT !.kwsLeft = Tail(@), !.keyword = Head(tk.kwsLeft),
                                        !.all_news = << >>, !.pc = "m_fetch_sleep"],
                  NormalizeKeyword(Head(tk.kwsLeft)), c.fail)

\* _send_seen_news_message up to its first sleep: the first
\* get_latest_news(base_kw, 50)
SeenStart(tk, base_keywords, fail) ==
  [tk EXCEPT !.pc = "ss_fetch_sleep", !.map = << >>,
             !.all_news = GetLatestNewsFor(Head(base_keywords), 50, fail),
             !.baseLeft = Tail(base_keywords)]

\* lines 1726-1740 of check_news_for_user: a None result makes
\* len(combined_news) raise, and the except sends an error notice; with
\* news, _send_news_to_user up to its send; without,
\* _send_seen_news_message
ManualKeyword(tk, c, combined_news, plan) ==
  IF combined_news.none THEN StartSend([tk EXCEPT !.map = << >>], Notice("error"))
  ELSE IF combined_news.list # << >>
  THEN IF plan.send THEN StartSend([tk EXCEPT !.map = << >>], plan)
       ELSE ManualContinue(tk, c)
  ELSE IF IsQuietTime(tk.user) THEN ManualContinue(tk, c)
  ELSE SeenStart(tk, NormalizeKeyword(tk.keyword), c.fail)

\* line 1732: _send_news_to_user(user_id, keyword, combined_news, True)
ManualApplied(tk, rows, c, combined_news) ==
  ManualKeyword(tk, c, combined_news,
                SendNewsPlan(rows, tk.user, tk.keyword, combined_news.list, TRUE, c))

\* check_news_command: without keywords tell the user so; else answer with
\* the loading message (an await) before check_news_for_user
ManualStart(user_id) ==
  /\ HandlerFree
  /\ IF GetKeywords(user_id) = {}
     THEN task' = [task EXCEPT !["manual"] =
                     StartSend([IdleTask EXCEPT !.user = user_id], Notice("nokeywords"))]
     ELSE task' = [task EXCEPT !["manual"] =
                     [IdleTask EXCEPT !.user = user_id, !.pc = "loading"]]
  /\ UNCHANGED <<dbVars, envVars, delivered, call>>
  /\ UNCHANGED alertVars

\* reply_text has returned: check_news_for_user reads the user's keywords
\* (in the order kws) and runs to its first await
ManualLoaded(kws, c) ==
  /\ ~Returning
  /\ task["manual"].pc = "loading"
  /\ kws \in Orderings(GetKeywords(task["manual"].user))
  /\ task' = [task EXCEPT !["manual"] = ManualContinue([@ EXCEPT !.kwsLeft = kws], c)]
  /\ UNCHANGED <<dbVars, envVars, delivered, call>>
  /\ UNCHANGED alertVars

\* asyncio.sleep(0.3) of the manual fetch loop ends: the next
\* get_latest_news and sleep; or apply_operation and what follows it, up to
\* the next await
ManualFetchWake(c) ==
  /\ ~Returning
  /\ task["manual"].pc = "m_fetch_sleep"
  /\ task' = [task EXCEPT !["manual"] =
                IF @.baseLeft # << >> THEN FetchNext(@, c.fail)
                ELSE ManualApplied(@, sent_news, c,
                                   ApplyOperation(@.keyword, @.map, c.fail))]
  /\ UNCHANGED <<dbVars, envVars, delivered, call>>
  /\ UNCHANGED alertVars

\* lines 1634-1649 of _send_seen_news_message: the already-seen items,
\* newest first
SeenNews(rows, user_id, keyword, all_news) ==
  LET Seen(i) == IsNewsSent(rows, user_id, keyword, i)
  IN SelectSeq(SortNewsByDate(RemoveDuplicates(all_news)), Seen)

\* lines 1651-1691: a "no news found" notice, or the first 15 seen items
SeenPlan(seen_news) ==
  IF seen_news = << >> THEN Notice("info")
  ELSE [site |-> "seen", batch |-> Take(seen_news, Cap), unseen |-> {}]

\* asyncio.sleep(0.3) of _send_seen_news_message ends: the next
\* get_latest_news(base_kw, 50) and sleep; or, the fetches done, the send
SeenFetchWake(c) ==
  /\ ~Returning
  /\ task["manual"].pc = "ss_fetch_sleep"
  /\ task' = [task EXCEPT !["manual"] =
                IF @.baseLeft # << >>
                THEN [@ EXCEPT !.all_news =
                                  @ \o GetLatestNewsFor(Head(task["manual"].baseLeft), 50, c.fail),
                               !.baseLeft = Tail(@)]
                ELSE StartSend(@, SeenPlan(SeenNews(sent_news, @.user, @.keyword,
                                                    @.all_news)))]
  /\ UNCHANGED <<dbVars, envVars, delivered, call>>
  /\ UNCHANGED alertVars

\* ----------------------------------------------------------- the commit loop
\* a commit loop that inserts a row for every item there is
CommitEveryItem(user_id, keyword, batch, failAt) ==
  { <<user_id, keyword, i>> : i \in Items }

\* Database.mark_news_sent in the commit loop: the first failAt - 1 calls
\* return (an existing row raises IntegrityError inside and is left alone),
\* call failAt raises out of the loop; failAt = Len(batch) + 1: none raises.
CommitRows(user_id, keyword, batch, failAt) ==
  { <<user_id, keyword, batch[n]>> : n \in 1..(failAt - 1) }

\* a commit that does not look at the result of the send
MarkBatchSentAnyway(rows, tk, failAt) ==
  rows \cup CommitRows(tk.user, tk.keyword, tk.batch, failAt)

\* the rows after the code that follows a committing send
MarkBatchSent(rows, tk, failAt) ==
  IF tk.result THEN rows \cup CommitRows(tk.user, tk.keyword, tk.batch, failAt)
  ELSE rows

\* ------------------------------------------- the paths that have no caller
\* _check_news_for_keyword after its filter: the new items are sent, or the
\* asyncio.sleep(0.5) of check_news_for_user follows
LegacyKeyword(tk, new_news) ==
  IF IsQuietTime(tk.user) \/ new_news = << >> THEN [tk EXCEPT !.pc = "l_sleep"]
  ELSE StartSend(tk, [site |-> "legacy", batch |-> new_news, unseen |-> Range(new_news)])

\* check_news_for_user(manual_check=False) and _check_news_for_keyword from
\* the head of the keyword loop up to the next await
LegacyContinue(tk, rows, c) ==
  IF tk.kwsLeft = << >> THEN IdleTask
  ELSE LegacyKeyword(
         [ClearSend(tk) EXCEPT !.kwsLeft = Tail(@), !.keyword = Head(tk.kwsLeft)],
         SortNewsByDate(FilterUnseen(rows, tk.user, Head(tk.kwsLeft),
                                     GetLatestNewsFor(Head(tk.kwsLeft), Cap, c.fail))))

\* a call of check_news_for_user(user_id, manual_check=False)
LegacyStart(user_id, kws, c) ==
  /\ HandlerFree
  /\ kws \in Orderings(GetKeywords(user_id))
  /\ kws # << >>
  /\ task' = [task EXCEPT !["manual"] =
                LegacyContinue([IdleTask EXCEPT !.user = user_id, !.kwsLeft = kws],
                               sent_news, c)]
  /\ UNCHANGED <<dbVars, envVars, delivered, call>>
  /\ UNCHANGED alertVars

\* asyncio.sleep(0.5) between two keywords ends
LegacyWake(c) ==
  /\ ~Returning
  /\ task["manual"].pc = "l_sleep"
  /\ task' = [task EXCEPT !["manual"] = LegacyContinue(@, sent_news, c)]
  /\ UNCHANGED <<dbVars, envVars, delivered, call>>
  /\ UNCHANGED alertVars

\* a call of _send_batch_news_to_user(user_id, {keyword: news_list}) up to
\* its send
BatchStart(user_id, keyword, news_list) ==
  /\ HandlerFree
  /\ ~IsQuietTime(user_id)
  /\ FilterUnseen(sent_news, user_id, keyword, news_list) # << >>
  /\ task' = [task EXCEPT !["manual"] =
                LET new_news == SortNewsByDate(
                                  FilterUnseen(sent_news, user_id, keyword, news_list))
                IN StartSend([IdleTask EXCEPT !.user = user_id, !.keyword = keyword],
                             [site |-> "batch", batch |-> new_news,
                              unseen |-> Range(new_news)])]
  /\ UNCHANGED <<dbVars, envVars, delivered, call>>
  /\ UNCHANGED alertVars

\* ------------------------------------------------------------ after the send
\* What follows the commit loop, up to the next await.  An exception out of
\* mark_news_sent reaches the per-user except of the cycle, which ends the
\* user's round, or the except of the manual check, which sends an error
\* notice, or the except around _check_news_for_keyword, which skips the
\* sleep; out of _send_batch_news_to_user it ends the call.
AfterCommit(t, tk, rows, raised, c) ==
  IF tk.site = "batch" THEN IdleTask
  ELSE IF tk.site = "legacy"
  THEN IF raised THEN LegacyContinue(tk, rows, c)
       ELSE [ClearSend(tk) EXCEPT !.pc = "l_sleep"]
  ELSE IF t = "sched"
  THEN IF raised THEN CycleContinue([ClearSend(tk) EXCEPT !.kwsLeft = << >>], rows, c)
       ELSE CycleContinue(ClearSend(tk), rows, c)
  ELSE IF raised THEN StartSend(tk, Notice("error"))
  ELSE ManualContinue(tk, c)

\* send_message_to_user has returned at a site that commits (line 1437 of
\* _send_news_to_user, 1816 of _check_news_for_keyword, 1256 of
\* _send_batch_news_to_user): commit on success, then go on to the next
\* await.
AfterSendNew(t, failAt, c) ==
  /\ task[t].pc = "returned"
  /\ task[t].site \in {"new", "legacy", "batch"}
  /\ failAt \in 1..(Len(task[t].batch) + 1)
  /\ task[t].result \/ failAt = Len(task[t].batch) + 1
  /\ sent_news' = MarkBatchSent(sent_news, task[t], failAt)
  /\ task' = [task EXCEPT ![t] =
                AfterCommit(t, @, MarkBatchSent(sent_news, @, failAt),
                            @.result /\ failAt <= Len(@.batch), c)]
  /\ UNCHANGED <<keywords, old_news, blocked_users, quiet_hours, envVars, delivered, call>>
  /\ UNCHANGED alertVars

\* An exception has left send_message_to_user inside _send_news_to_user of
\* the scheduled cycle: the except around the user's keywords
\* (check_news_updates, lines 1179-1180) logs it and the cycle goes on with
\* the next user.
AfterRaise(c) ==
  /\ task["sched"].pc = "raised"
  /\ task' = [task EXCEPT !["sched"] =
                CycleContinue([ClearSend(@) EXCEPT !.kwsLeft = << >>], sent_news, c)]
  /\ UNCHANGED <<dbVars, envVars, delivered, call>>
  /\ UNCHANGED alertVars

\* send_message_to_user has returned at a site that records nothing: the
\* seen-only message, a "no news found" notice or an error notice
AfterSendOther(c) ==
  /\ task["manual"].pc = "returned"
  /\ task["manual"].site \in {"seen", "info", "error", "nokeywords"}
  /\ task' = [task EXCEPT !["manual"] =
                IF @.site = "nokeywords" THEN IdleTask ELSE ManualContinue(@, c)]
  /\ UNCHANGED <<dbVars, envVars, delivered, call>>
  /\ UNCHANGED alertVars

\* -------------------------------------------------------- threshold alerts
\* the reference peaks (all_time_high) the market data can show
Peaks == {100, 111}

\* the drop_percentage values the market data can show, in half percents
Drops == 9..MaxDrop

\* A price written to a REAL column and read back: the column keeps 24
\* bits, so a price comes back as the nearest value it can hold.  In the
\* unit of the model the even prices are the ones a REAL holds exactly
\* (of Peaks, 100 is stored exactly and 111 is not).
ToReal(x) == 2 * (x \div 2)

\* current_level = int(drop_percentage)
CurrentLevel(drop_percentage) == drop_percentage \div 2

\* Database.get_all_users: the users that have a keyword
GetAllUsers == { row[1] : row \in keywords }

\* Database.get_nasdaq_alert_setting: TRUE unless a row says otherwise
GetNasdaqAlertSetting(user_id) == user_id \notin nasdaq_off

\* Database.get_last_stock_alert_level: the user's row, or none ({})
GetLastStockAlertLevel(levels, user_id) == { r \in levels : r.user_id = user_id }

\* a decision that a new peak does not re-arm
ShouldAlertOnRise(current_level, last_alert, ath_price) ==
  /\ current_level >= MinimumLevel
  /\ last_alert = {} \/ (\E r \in last_alert : current_level > r.last_level)

\* lines 1965-1976 of check_stock_drop_alerts
ShouldAlert(current_level, last_alert, ath_price) ==
  IF last_alert = {} \/ (\E r \in last_alert : r.ath_price # ath_price)
  THEN current_level >= MinimumLevel
  ELSE (\E r \in last_alert : current_level > r.last_level)
       /\ current_level >= MinimumLevel

\* Database.update_stock_alert_level: INSERT ... ON CONFLICT (user_id) DO
\* UPDATE
UpdateStockAlertLevel(levels, user_id, level, ath_price) ==
  { r \in levels : r.user_id # user_id }
    \cup { [user_id |-> user_id, last_level |-> level,
            ath_price |-> ToReal(ath_price)] }

\* created_at of the row that an upsert for user_id leaves: DEFAULT
\* CURRENT_TIMESTAMP on insert and not in the SET list of the update, it is
\* the time of the first gating since the last flush.  The model names
\* that time by the level that was gated then.
CreatedAt(pending, user_id, alert_level) ==
  IF \E r \in pending : r.user_id = user_id
  THEN (CHOOSE r \in pending : r.user_id = user_id).created_at
  ELSE alert_level

\* a pending alert that is stored beside the ones already there
AddPendingStockAlert(pending, user_id, alert_level, ath_price) ==
  pending \cup { [user_id |-> user_id, alert_level |-> alert_level,
                  ath_price |-> ToReal(ath_price), info_ath |-> ath_price,
                  created_at |-> alert_level] }

\* Database.set_pending_stock_alert: INSERT ... ON CONFLICT (user_id) DO
\* UPDATE; nasdaq_info is kept as JSON text, its all_time_high as observed
SetPendingStockAlert(pending, user_id, alert_level, ath_price) ==
  { r \in pending : r.user_id # user_id }
    \cup { [user_id |-> user_id, alert_level |-> alert_level,
            ath_price |-> ToReal(ath_price), info_ath |-> ath_price,
            created_at |-> CreatedAt(pending, user_id, alert_level)] }

\* Database.get_pending_stock_alert
GetPendingStockAlert(pending, user_id) == { r \in pending : r.user_id = user_id }

\* Database.clear_pending_stock_alert
ClearPendingStockAlert(pending, user_id) == { r \in pending : r.user_id # user_id }

RECURSIVE StockContinue(_, _)
\* lines 1958-1989 for one user: the setting, the decision, the quiet
\* check that stores a pending alert, else _send_drop_alert up to its
\* await of get_tqqq_info.  The result is [task, pending].
StockUser(tk, pending, user_id) ==
  IF ~GetNasdaqAlertSetting(user_id)
     \/ ~ShouldAlert(tk.level, GetLastStockAlertLevel(alert_levels, user_id), tk.ath)
  THEN StockContinue(tk, pending)
  ELSE IF IsQuietTime(user_id)
  THEN StockContinue(tk, SetPendingStockAlert(pending, user_id, tk.level, tk.ath))
  ELSE [task |-> [tk EXCEPT !.pc = "tqqq_fetch", !.user = user_id, !.site = "alert"],
        pending |-> pending]

\* the user loop of check_stock_drop_alerts up to the next await or to the
\* end of the cycle
StockContinue(tk, pending) ==
  IF tk.usersLeft = << >> THEN [task |-> IdleTask, pending |-> pending]
  ELSE StockUser([tk EXCEPT !.usersLeft = Tail(@)], pending, Head(tk.usersLeft))

\* the market data change between two alert cycles
MarketMove(ath, drop_percentage) ==
  /\ task["stock"].pc = "idle"
  /\ market' = [ath |-> ath, drop_percentage |-> drop_percentage]
  /\ market' # market
  /\ UNCHANGED <<dbVars, envVars, task, delivered, call, alert_levels, pending_alerts,
                 nasdaq_off, alerted>>

\* the nasdaq alert buttons / Database.set_nasdaq_alert_setting
SetNasdaqAlert(user_id, enabled) ==
  /\ HandlerFree
  /\ nasdaq_off' = IF enabled THEN nasdaq_off \ {user_id} ELSE nasdaq_off \cup {user_id}
  /\ nasdaq_off' # nasdaq_off
  /\ UNCHANGED <<dbVars, envVars, task, delivered, call, alert_levels, pending_alerts,
                 market, alerted>>

\* check_stock_drop_alerts starts and awaits get_nasdaq_info in a thread
StockStart ==
  /\ ~Returning
  /\ task["stock"].pc = "idle"
  /\ task' = [task EXCEPT !["stock"].pc = "nasdaq_fetch"]
  /\ UNCHANGED <<dbVars, envVars, delivered, call, alertVars>>

\* the task and the pending alerts after step s of the cycle
StockStep(s) ==
  /\ task' = [task EXCEPT !["stock"] = s.task]
  /\ pending_alerts' = s.pending
  /\ UNCHANGED <<dbVars, envVars, delivered, call, alert_levels, nasdaq_off, market, alerted>>

\* get_nasdaq_info has returned, the market data or nothing: the cycle
\* ends, or computes the level and runs the user loop to its first await;
\* all_users is the order the rows come in
StockFetched(info, all_users) ==
  /\ ~Returning
  /\ task["stock"].pc = "nasdaq_fetch"
  /\ all_users \in Orderings(GetAllUsers)
  /\ IF ~info
     THEN StockStep([task |-> IdleTask, pending |-> pending_alerts])
     ELSE StockStep(StockContinue(
            [IdleTask EXCEPT !.level = CurrentLevel(market.drop_percentage),
                             !.ath = market.ath, !.ath_price = market.ath,
                             !.usersLeft = all_users],
            pending_alerts))

\* asyncio.sleep(1) between two users ends
StockWake ==
  /\ ~Returning
  /\ task["stock"].pc = "alert_sleep"
  /\ StockStep(StockContinue(task["stock"], pending_alerts))

\* _send_drop_alert: get_tqqq_info has returned; without data the alert is
\* not sent and the result is False, else send_message_to_user is awaited
TqqqFetched(t, tqqq_info) ==
  /\ ~Returning
  /\ task[t].pc = "tqqq_fetch"
  /\ task' = [task EXCEPT ![t] =
                IF tqqq_info THEN StartSend(@, Notice(@.site))
                ELSE IF t = "stock" THEN [ClearSend(@) EXCEPT !.pc = "alert_sleep"]
                ELSE IdleTask]
  /\ UNCHANGED <<dbVars, envVars, delivered, call, alertVars>>

\* an update that does not look at the result of the send
UpdateAnyway(levels, tk) ==
  UpdateStockAlertLevel(levels, tk.user, tk.level, tk.ath_price)

\* `if success: update_stock_alert_level(...)` after _send_drop_alert
UpdateIfSuccess(levels, tk) ==
  IF tk.result THEN UpdateStockAlertLevel(levels, tk.user, tk.level, tk.ath_price)
  ELSE levels

\* _send_drop_alert has returned: lines 1989-1996 of
\* check_stock_drop_alerts, up to the sleep between two users; or lines
\* 693-695 of the quiet:off handler, which also clears the pending alert
AfterSendAlert(t) ==
  /\ task[t].pc = "returned"
  /\ task[t].site \in {"alert", "flush"}
  /\ alert_levels' = UpdateIfSuccess(alert_levels, task[t])
  /\ pending_alerts' = IF task[t].site = "flush" /\ task[t].result
                       THEN ClearPendingStockAlert(pending_alerts, task[t].user)
                       ELSE pending_alerts
  /\ task' = [task EXCEPT ![t] =
                IF @.site = "alert" THEN [ClearSend(@) EXCEPT !.pc = "alert_sleep"]
                ELSE IdleTask]
  /\ UNCHANGED <<dbVars, envVars, delivered, call, nasdaq_off, market, alerted>>

\* ------------------------------------------------------ quiet-hours buttons
\* quiet:off: Database.disable_quiet_hours, then the confirmation is
\* edited in (an await); without a quiet_hours row only a notice is shown
QuietOff(user_id) ==
  /\ HandlerFree
  /\ quiet_hours[user_id].set
  /\ quiet_hours' = [quiet_hours EXCEPT ![user_id].enabled = FALSE]
  /\ task' = [task EXCEPT !["manual"] = [IdleTask EXCEPT !.pc = "q_edit", !.user = user_id]]
  /\ UNCHANGED <<keywords, sent_news, old_news, blocked_users, envVars, delivered, call,
                 alertVars>>

\* the pending alert of the handler's user as the payload of _send_drop_alert
FlushPending(tk, pending) ==
  IF pending = {} THEN IdleTask
  ELSE [tk EXCEPT !.pc = "tqqq_fetch", !.site = "flush",
                  !.level = (CHOOSE r \in pending : TRUE).alert_level,
                  !.ath = (CHOOSE r \in pending : TRUE).info_ath,
                  !.ath_price = (CHOOSE r \in pending : TRUE).ath_price]

\* the confirmation is out: a pending alert, if there is one, is sent with
\* _send_drop_alert
QuietEdited ==
  /\ ~Returning
  /\ task["manual"].pc = "q_edit"
  /\ task' = [task EXCEPT !["manual"] =
                FlushPending(@, GetPendingStockAlert(pending_alerts, @.user))]
  /\ UNCHANGED <<dbVars, envVars, delivered, call, alertVars>>

\* quiet:on: Database.enable_quiet_hours
QuietOn(user_id) ==
  /\ HandlerFree
  /\ quiet_hours[user_id].set
  /\ ~quiet_hours[user_id].enabled
  /\ quiet_hours' = [quiet_hours EXCEPT ![user_id].enabled = TRUE]
  /\ UNCHANGED <<keywords, sent_news, old_news, blocked_users, envVars, task,
                 delivered, call, alertVars>>

\* ------------------------------------------------------------ specification
\* the choices of the segment that follows a sleep of task t's fetch loop:
\* one more fetch, or apply_operation and _send_news_to_user
WakeChoices(t) == IF task[t].baseLeft # << >> THEN FetchChoices ELSE Choices

\* the choices of the segment that follows a send of task t: nothing is
\* asked when no keyword is left; the manual check goes on with a fetch,
\* the cycle with apply_operation and _send_news_to_user
AfterSendChoices(t) ==
  IF t = "manual"
  THEN IF task[t].kwsLeft = << >> THEN NoChoice ELSE FetchChoices
  ELSE IF task[t].kwsLeft = << >> /\ task[t].usersLeft = << >> THEN NoChoice
  ELSE Choices

\* the errors after which send_message_to_user does not try again
PermanentErrors == { e \in Errors : ~IsRetryableError(e) }

\* The bot as it is wired: the scheduled cycle runs concurrently with the
\* subscribers' commands.  send_message_to_user returns True, or False, or
\* False after marking the user blocked; the retries behind a False that
\* follows transient errors are the subject of SpecDispatch.
Next ==
  \/ \E i \in Items : Publish(i)
  \/ \E i \in Items : AgeItem(i)
  \/ \E r \in Registrable : AddKeyword(r[1], r[2])
  \/ \E r \in Registrable : RemoveKeyword(r[1], r[2])
  \/ \E user_keywords \in Orderings(UserKeywordsExceptBlocked), fail \in FailChoices,
        cleaned \in BOOLEAN :
        CycleStart(user_keywords, fail, cleaned)
  \/ \E c \in WakeChoices("sched") : CycleFetchWake(c)
  \/ \E t \in Tasks : SendOk(t)
  \/ \E t \in Tasks, e \in PermanentErrors : SendError(t, e)
  \/ \E t \in Tasks, failAt \in 1..(MaxItems + 1) :
        \E c \in AfterSendChoices(t) : AfterSendNew(t, failAt, c)
  \/ \E c \in AfterSendChoices("manual") : AfterSendOther(c)
  \/ \E r \in Registrable : ManualStart(r[1])
  \/ \E kws \in UNION { Orderings(GetKeywords(r[1])) : r \in Registrable },
        c \in FetchChoices :
        ManualLoaded(kws, c)
  \/ \E c \in WakeChoices("manual") : ManualFetchWake(c)
  \/ \E c \in FetchChoices : SeenFetchWake(c)

Spec == Init /\ [][Next]_vars

\* The bot with the two dispatch paths that nothing calls,
\* check_news_for_user(manual_check=False) with _check_news_for_keyword and
\* _send_batch_news_to_user, callable as handlers are.
NextAll ==
  \/ Next
  \/ \E r \in Registrable, c \in FetchChoices :
        \E kws \in Orderings(GetKeywords(r[1])) : LegacyStart(r[1], kws, c)
  \/ \E c \in FetchChoices : LegacyWake(c)
  \/ \E r \in Registrable, S \in SUBSET published : BatchStart(r[1], r[2], SetToSeq(S))

SpecAll == Init /\ [][NextAll]_vars

\* One manual check at a time and no scheduled cycle, with every error
\* bot.send_message can raise: the retry loop of send_message_to_user.
NextDispatch ==
  \/ \E i \in Items : Publish(i)
  \/ \E r \in Registrable : AddKeyword(r[1], r[2])
  \/ \E r \in Registrable : RemoveKeyword(r[1], r[2])
  \/ SendOk("manual")
  \/ \E e \in Errors : SendError("manual", e)
  \/ \E failAt \in 1..(MaxItems + 1), c \in AfterSendChoices("manual") :
        AfterSendNew("manual", failAt, c)
  \/ \E c \in AfterSendChoices("manual") : AfterSendOther(c)
  \/ \E r \in Registrable : ManualStart(r[1])
  \/ \E kws \in UNION { Orderings(GetKeywords(r[1])) : r \in Registrable },
        c \in FetchChoices :
        ManualLoaded(kws, c)
  \/ \E c \in WakeChoices("manual") : ManualFetchWake(c)
  \/ \E c \in FetchChoices : SeenFetchWake(c)

SpecDispatch == Init /\ [][NextDispatch]_vars

\* The bot as it is wired, with a subscriber who sets quiet hours and the
\* time of day passing.
NextQuiet ==
  \/ Next
  \/ \E r \in Registrable, w \in QuietChoices : SetQuietHours(r[1], w)
  \/ Tick

SpecQuiet == Init /\ [][NextQuiet]_vars

\* The quiet-hours buttons alone, at every time of day the start and end
\* buttons offer (quiet-start-HH00, quiet-end-HH00): the subscribers choose
\* any window, switch it off and on again.
NextQuietTime ==
  \/ \E u \in Users, w \in (0..MaxTime) \X (0..MaxTime) : SetQuietHours(u, w)
  \/ \E u \in Users : QuietOff(u)
  \/ \E u \in Users : QuietOn(u)
  \/ QuietEdited

\* the bot as constructed, at any time of day
InitDay == Constructed /\ clock \in 0..MaxTime /\ call = [fn |-> None]

SpecQuietTime == InitDay /\ [][NextQuietTime]_vars

\* The scheduled news cycle alone, with a subscriber who sets quiet hours
\* and the time of day passing; nobody asks for a manual check.
NextQuietCycle ==
  \/ \E i \in Items : Publish(i)
  \/ \E i \in Items : AgeItem(i)
  \/ \E r \in Registrable : AddKeyword(r[1], r[2])
  \/ \E r \in Registrable : RemoveKeyword(r[1], r[2])
  \/ \E r \in Registrable, w \in QuietChoices : SetQuietHours(r[1], w)
  \/ Tick
  \/ \E user_keywords \in Orderings(UserKeywordsExceptBlocked), fail \in FailChoices,
        cleaned \in BOOLEAN :
        CycleStart(user_keywords, fail, cleaned)
  \/ \E c \in WakeChoices("sched") : CycleFetchWake(c)
  \/ SendOk("sched")
  \/ \E e \in PermanentErrors : SendError("sched", e)
  \/ \E failAt \in 1..(MaxItems + 1), c \in AfterSendChoices("sched") :
        AfterSendNew("sched", failAt, c)

SpecQuietCycle == Init /\ [][NextQuietCycle]_vars

\* The scheduled news cycle alone with two subscribers:
\* send_message_to_user returns True, or False, or False after marking the
\* user blocked, and the commit loop can raise at any row.
NextSubscribers ==
  \/ \E i \in Items : Publish(i)
  \/ \E r \in Subscriptions : AddKeyword(r[1], r[2])
  \/ \E user_keywords \in Orderings(UserKeywordsExceptBlocked), fail \in FailChoices :
        CycleStart(user_keywords, fail, TRUE)
  \/ \E c \in WakeChoices("sched") : CycleFetchWake(c)
  \/ SendOk("sched")
  \/ \E e \in PermanentErrors : SendError("sched", e)
  \/ \E failAt \in 1..(MaxItems + 1), c \in AfterSendChoices("sched") :
        AfterSendNew("sched", failAt, c)

SpecSubscribers == Init /\ [][NextSubscribers]_vars

\* The scheduled news cycle with two subscribers and every transport
\* outcome of bot.send_message, where the database call of the blocked
\* branch either returns or raises.
NextUnmarked ==
  \/ NextSubscribers
  \/ \E e \in Errors : SendError("sched", e)
  \/ \E e \in Errors : SendMarkRaises("sched", e)
  \/ \E c \in AfterSendChoices("sched") : AfterRaise(c)

SpecUnmarked == Init /\ [][NextUnmarked]_vars

\* The threshold-alert cycle (a cron job of its own) for one subscriber,
\* beside the handlers of the quiet-hours buttons, with the time of day
\* passing.
NextAlert ==
  \/ \E r \in Registrable : AddKeyword(r[1], r[2])
  \/ \E r \in Registrable : RemoveKeyword(r[1], r[2])
  \/ \E ath \in Peaks, drop_percentage \in Drops : MarketMove(ath, drop_percentage)
  \/ \E r \in Registrable, w \in QuietChoices : SetQuietHours(r[1], w)
  \/ \E r \in Registrable : QuietOff(r[1])
  \/ \E r \in Registrable : QuietOn(r[1])
  \/ QuietEdited
  \/ Tick
  \/ StockStart
  \/ \E info \in BOOLEAN, all_users \in Orderings(GetAllUsers) :
        StockFetched(info, all_users)
  \/ StockWake
  \/ \E t \in {"stock", "manual"}, tqqq_info \in BOOLEAN : TqqqFetched(t, tqqq_info)
  \/ \E t \in {"stock", "manual"} : SendOk(t)
  \/ \E t \in {"stock", "manual"}, e \in PermanentErrors : SendError(t, e)
  \/ \E t \in {"stock", "manual"} : AfterSendAlert(t)

SpecAlert == Init /\ [][NextAlert]_vars

\* a step of the alert cycle: the cron trigger fires every two hours, and
\* each await of the cycle returns
StockTaskStep ==
  \/ StockStart
  \/ \E info \in BOOLEAN, all_users \in Orderings(GetAllUsers) :
        StockFetched(info, all_users)
  \/ StockWake
  \/ \E tqqq_info \in BOOLEAN : TqqqFetched("stock", tqqq_info)
  \/ SendOk("stock")
  \/ AfterSendAlert("stock")

\* a step of a started quiet:off handler: each of its awaits returns
HandlerStep ==
  \/ QuietEdited
  \/ \E tqqq_info \in BOOLEAN : TqqqFetched("manual", tqqq_info)
  \/ SendOk("manual")
  \/ AfterSendAlert("manual")

\* SpecAlert with the scheduler and the event loop making progress and the
\* time of day passing; what the subscriber and the market do is left open
SpecAlertLive ==
  /\ Init /\ [][NextAlert]_vars
  /\ WF_vars(StockTaskStep) /\ WF_vars(HandlerStep) /\ WF_vars(Tick)

\* The threshold-alert cycle over several subscribers, who switch the
\* alerts off and on; nobody has quiet hours and the peak stays.
NextAlertUsers ==
  \/ \E u \in Users : AddKeyword(u, <<"A", "or", "B">>)
  \/ \E u \in Users : RemoveKeyword(u, <<"A", "or", "B">>)
  \/ \E drop_percentage \in Drops : MarketMove(market.ath, drop_percentage)
  \/ \E u \in Users, enabled \in BOOLEAN : SetNasdaqAlert(u, enabled)
  \/ StockStart
  \/ \E info \in BOOLEAN, all_users \in Orderings(GetAllUsers) :
        StockFetched(info, all_users)
  \/ StockWake
  \/ \E tqqq_info \in BOOLEAN : TqqqFetched("stock", tqqq_info)
  \/ SendOk("stock")
  \/ \E e \in PermanentErrors : SendError("stock", e)
  \/ AfterSendAlert("stock")

SpecAlertUsers == Init /\ [][NextAlertUsers]_vars

\* the expressions a subscriber can send to /add or type when asked for a
\* keyword: the loop over the comma-separated parts hands each non-empty
\* part to Database.add_keyword
Submitted ==
  { <<"A">>, <<"A", "or", "B">>, <<"A", "and", "B">>, <<"A", "and", "B", "or", "C">>,
    <<"(", "A", "or", "B", ")", "and", "C">> }

\* The threshold-alert cycle for one subscriber with quiet hours, who
\* switches the alerts off and on between two cycles, never while one runs.
NextAlertSetting ==
  \/ AddKeyword("u1", <<"A", "or", "B">>)
  \/ \E drop_percentage \in Drops : MarketMove(market.ath, drop_percentage)
  \/ \E w \in QuietChoices : SetQuietHours("u1", w)
  \/ QuietOff("u1")
  \/ QuietEdited
  \/ Tick
  \/ \E enabled \in BOOLEAN : task["stock"].pc = "idle" /\ SetNasdaqAlert("u1", enabled)
  \/ StockStart
  \/ \E info \in BOOLEAN, all_users \in Orderings(GetAllUsers) :
        StockFetched(info, all_users)
  \/ StockWake
  \/ \E t \in {"stock", "manual"}, tqqq_info \in BOOLEAN : TqqqFetched(t, tqqq_info)
  \/ \E t \in {"stock", "manual"} : SendOk(t)
  \/ \E t \in {"stock", "manual"} : AfterSendAlert(t)

SpecAlertSetting == Init /\ [][NextAlertSetting]_vars

\* The registration commands alone, with every expression a subscriber
\* can send.
NextRegister ==
  \/ \E u \in Users, keyword \in Submitted : AddKeyword(u, keyword)
  \/ \E u \in Users, keyword \in Submitted : RemoveKeyword(u, keyword)

SpecRegister == Init /\ [][NextRegister]_vars

\* ------------------------------------------- the library functions alone
\* the calls of evaluate_keyword_expression: a word, two words joined by an
\* operator, a group in parentheses joined to a word, and a group within a
\* group joined to a word, on every text
EvaluateCalls ==
  LET EvalWords == {"A", "a", "B", "C"}
      Ands == {"AND", "and"}
      Ors  == {"OR", "or"}
      exprs ==
        { <<x>> : x \in EvalWords }
        \cup { <<x, op, y>> : x \in EvalWords, op \in Ands \cup Ors, y \in EvalWords }
        \cup { <<"(", xy[1], o, xy[2], ")", a, z>> :
                 xy \in EvalWords \X EvalWords, o \in Ors, a \in Ands, z \in EvalWords }
        \cup { <<"(", "(", "A", ops[1], "B", ")", ops[2], "C", ")", ops[3], w>> :
                 ops \in (Ands \cup Ors) \X (Ands \cup Ors) \X (Ands \cup Ors),
                 w \in EvalWords }
  IN { [fn |-> "evaluate_keyword_expression", args |-> <<expression, text>>,
        value |-> << >>] : expression \in exprs, text \in SUBSET EvalWords }

\* evaluate_keyword_expression returns
Evaluate ==
  /\ call.fn = "evaluate_keyword_expression"
  /\ call.value = << >>
  /\ call' = [call EXCEPT
                !.value = <<EvaluateKeywordExpression(call.args[1], call.args[2])>>]
  /\ UNCHANGED <<dbVars, envVars, task, delivered, alertVars>>

\* the calls of apply_operation: an expression of each kind, with the
\* operator in either case, and a pool in which A and B have up to MaxPool
\* items each, none or one of them in common
ApplyCalls ==
  LET exprs == { <<"A">>, <<"A", "or", "B">>, <<"A", "and", "B">>,
                 <<"A", "OR", "B">>, <<"A", "AND", "B">> }
      Pool(a, b, common) ==
        [base_kw \in { <<"A">>, <<"B">> } |->
           IF base_kw = <<"A">> THEN [n \in 1..a |-> n]
           ELSE [n \in 1..b |-> a - common + n]]
  IN { [fn |-> "apply_operation", args |-> <<keyword, Pool(s[1], s[2], s[3])>>,
        value |-> << >>] :
         keyword \in exprs,
         s \in { x \in (0..MaxPool) \X (0..MaxPool) \X {0, 1} :
                   x[3] <= x[1] /\ x[3] <= x[2] } }

\* apply_operation returns
Apply ==
  /\ call.fn = "apply_operation"
  /\ call.value = << >>
  /\ call' = [call EXCEPT !.value = <<ApplyOperation(call.args[1], call.args[2], {})>>]
  /\ UNCHANGED <<dbVars, envVars, task, delivered, alertVars>>

\* the calls of filter_similar_news: the lists of up to MaxNews different
\* items in every order, with the threshold the bot passes
FilterCalls ==
  { [fn |-> "filter_similar_news", args |-> <<news_list, SimilarityThreshold>>,
     value |-> << >>] :
      news_list \in UNION { Orderings(S) : S \in SUBSET (1..MaxNews) } }

\* filter_similar_news returns: the representatives, the similar_count of
\* each, and (not returned, kept for inspection) the members of each group
Filter ==
  /\ call.fn = "filter_similar_news"
  /\ call.value = << >>
  /\ \E groups \in {GroupSimilar(call.args[1], << >>, call.args[2])} :
       call' = [call EXCEPT !.value =
                  << FilterSimilarNews(call.args[1], call.args[2]),
                     [g \in DOMAIN groups |-> SimilarCount(groups[g])],
                     [g \in DOMAIN groups |-> groups[g].similar] >>]
  /\ UNCHANGED <<dbVars, envVars, task, delivered, alertVars>>

\* the calls of normalize_keyword: a word, two words joined by an operator
\* in either case, three words joined by two operators, and a group in
\* parentheses joined to a word
NormalizeCalls ==
  LET ops == {"AND", "and", "OR", "or"}
      exprs ==
        { <<x>> : x \in Terms }
        \cup { <<x, op, y>> : x \in Terms, op \in ops, y \in Terms }
        \cup { <<"A", o[1], "B", o[2], "C">> : o \in ops \X ops }
        \cup { <<"(", "A", o[1], "B", ")", o[2], "C">> : o \in ops \X ops }
  IN { [fn |-> "normalize_keyword", args |-> <<keyword>>, value |-> << >>] :
         keyword \in exprs }

\* normalize_keyword returns
Normalize ==
  /\ call.fn = "normalize_keyword"
  /\ call.value = << >>
  /\ call' = [call EXCEPT !.value = <<NormalizeKeyword(call.args[1])>>]
  /\ UNCHANGED <<dbVars, envVars, task, delivered, alertVars>>

\* the top-up of _send_news_to_user (lines 1375-1387) on the list all_news
\* that the fetch loop of _get_additional_news has collected: the provider
\* serves the items lo..hi in its own order (sort=sim), the subscriber has
\* seen the `seen` oldest or newest of them, and new_news is the rest
BackfillCalls ==
  LET Pool(lo, hi) == SetToSeq(lo..hi)
      Rows(S) == { <<"u1", <<"A">>, i>> : i \in S }
      Old(lo, seen) == lo..(lo + seen - 1)
      layouts ==
        { [new_news |-> SetToSeq((x[1]..x[2]) \ Old(x[1], x[3])),
           all_news |-> Pool(x[1], x[2]), rows |-> Rows(Old(x[1], x[3]))] :
            x \in { y \in {1, 2} \X (1..(MaxPool + 2)) \X (0..MaxPool) :
                      y[1] + y[3] <= y[2] /\ y[2] <= y[1] + y[3] + 1 } }
        \cup
        { [new_news |-> <<x[1]>>, all_news |-> Pool(x[1], x[2]),
           rows |-> Rows((x[1] + 1)..x[2])] :
            x \in {1, 2} \X (2..MaxPool) }
  IN { [fn |-> "backfill", args |-> <<l.new_news, l.all_news, l.rows>>,
        value |-> << >>] : l \in { m \in layouts : m.new_news # << >> } }

\* the top-up returns: the items added and the list at line 1389
Backfill ==
  /\ call.fn = "backfill"
  /\ call.value = << >>
  /\ \E new_news \in {SortNewsByDate(call.args[1])} :
       \E additional_news \in
            {IF Len(new_news) < Cap
             THEN SelectSeen(call.args[3], "u1", <<"A">>, call.args[2],
                             Cap - Len(new_news))
             ELSE << >>} :
         call' = [call EXCEPT !.value = <<[added |-> additional_news,
                                           list |-> Extend(new_news, additional_news)]>>]
  /\ UNCHANGED <<dbVars, envVars, task, delivered, alertVars>>

\* Each library function called by itself with arguments of every shape.
NextLibrary ==
  \/ Evaluate
  \/ Apply
  \/ Filter
  \/ Normalize
  \/ Backfill

\* one call of a library function, about to run
InitLibrary ==
  /\ Constructed /\ clock = 0
  /\ \/ call \in EvaluateCalls \/ call \in ApplyCalls \/ call \in FilterCalls
     \/ call \in NormalizeCalls \/ call \in BackfillCalls

SpecLibrary == InitLibrary /\ [][NextLibrary]_vars

\* ------------------------------------------------------------------ claims
\* C1: in every dispatch path (_send_news_to_user, _check_news_for_keyword,
\* _send_batch_news_to_user) ledger rows are inserted only by the task whose
\* send_message_to_user has just returned success, and only rows of the
\* batch that was sent; the step that follows a failed send leaves the
\* ledger as it is.
C1_RecordOnlyAfterSuccess ==
  [][ /\ (sent_news' \ sent_news) # {} =>
           \E t \in Tasks : /\ task[t].pc = "returned"
                            /\ task[t].result
                            /\ task[t].site \in {"new", "legacy", "batch"}
                            /\ (sent_news' \ sent_news) \subseteq BatchKeys(task[t])
      /\ \A t \in Tasks : (task[t].pc = "returned" /\ ~task[t].result)
                             => sent_news' = sent_news ]_vars

\* a send of news has returned failure while the ledger holds rows of
\* earlier successful sends
C1_Witness ==
  \E t \in Tasks : /\ task[t].pc = "returned"
                   /\ ~task[t].result
                   /\ task[t].site \in {"new", "legacy", "batch"}
                   /\ task[t].batch # << >>
                   /\ sent_news # {}

\* C2: the unseen filter returns only items without a ledger row: when a
\* task comes to its send, none of the items the filter let through has a
\* row for this subscriber and expression in the ledger the filter read.
C2_FilterReturnsUnrecorded ==
  [][ \A t \in Tasks : (task[t].pc # "send" /\ task'[t].pc = "send")
                          => UnseenKeys(task'[t]) \cap sent_news' = {} ]_vars

\* the filter has let an item through while the ledger holds a row of this
\* subscriber and expression for an item that was in the candidate list
C2_Witness ==
  \E t \in Tasks : /\ task[t].pc = "send"
                   /\ task[t].unseen # {}
                   /\ \E i \in Range(task[t].batch) :
                         /\ i \notin task[t].unseen
                         /\ <<task[t].user, task[t].keyword, i>> \in sent_news

\* C3: at-most-once delivery: no successful send shows as new an item that
\* an earlier successful send has shown as new to the same subscriber under
\* the same expression; stated for the items whose row of the earlier
\* delivery is in the ledger, which is the case of two runs that both
\* filter before either commits.
C3_AtMostOnce ==
  [][ \A t \in Tasks : (task[t].pc = "send" /\ task'[t].pc = "returned" /\ task'[t].result)
                          => UnseenKeys(task[t]) \cap delivered \cap sent_news = {} ]_vars

C6_ScheduledNeverBackfills ==
  [][ (task["sched"].pc # "send" /\ task'["sched"].pc = "send")
         => /\ BatchKeys(task'["sched"]) \cap sent_news' = {}
            /\ task'["sched"].unseen # {} ]_vars

\* C7: the commit after a successful send of _send_news_to_user inserts
\* rows only for the unseen items of the batch, none for a backfill item.
C7_BackfillNeverRecorded ==
  [][ \A t \in Tasks : (task[t].pc = "returned" /\ task[t].site = "new")
                          => (sent_news' \ sent_news) \subseteq UnseenKeys(task[t]) ]_vars

\* C8: the commit is all-or-nothing: after the commit of a batch whose
\* unseen items had no row, either all of them have a row or none has.
C8_CommitAllOrNothing ==
  [][ \A t \in Tasks :
        (/\ task[t].pc = "returned"
         /\ task[t].site \in {"new", "legacy", "batch"}
         /\ UnseenKeys(task[t]) \cap sent_news = {})
        => \/ UnseenKeys(task[t]) \subseteq sent_news'
           \/ UnseenKeys(task[t]) \cap sent_news' = {} ]_vars

\* C9: one call of send_message_to_user makes at most 3 attempts; every
\* attempt but the last one made has failed with a transient error; an
\* error that is neither transient nor a block is the last attempt and the
\* call returns failure.
C9_RetryOnlyTransient ==
  \A t \in Tasks :
    /\ Len(task[t].log) <= 3
    /\ task[t].pc = "send" => Len(task[t].log) <= 2
    /\ \A k \in 1..(Len(task[t].log) - 1) : task[t].log[k] = "transient"
    /\ \A k \in 1..Len(task[t].log) :
          task[t].log[k] \in {"other", "blocked"}
             => k = Len(task[t].log) /\ task[t].pc = "returned" /\ ~task[t].result
    /\ (task[t].pc = "send" /\ task[t].log # << >>)
          => task[t].log[Len(task[t].log)] = "transient"

\* three attempts have been made and the third has failed as well
C9_Witness ==
  /\ task["manual"].pc = "returned"
  /\ task["manual"].log = <<"transient", "transient", "transient">>
  /\ ~task["manual"].result

C12_BlockedNeverDispatched ==
  [][ \A t \in {"sched", "stock"} :
        (task[t].pc # "send" /\ task'[t].pc = "send")
        => task'[t].user \notin blocked_users ]_vars

\* C13: a scheduled cycle, of news or of threshold alerts, never starts a
\* send_message_to_user call for a subscriber at a moment at which
\* is_quiet_time is true for that subscriber, whatever happened between the
\* cycle's quiet check and the send.
C13_NoAutomaticSendInQuietTime ==
  [][ \A t \in {"sched", "stock"}, u \in Users :
        (task[t].pc # "send" /\ task'[t].pc = "send" /\ task'[t].user = u)
        => ~IsQuietTime(u)' ]_vars

\* C16: for every subscriber, a step that leaves the stored reference peak
\* of the stock_alert_levels row as it was never lowers the stored
\* last_level, whether the step belongs to an alert cycle, to the quiet
\* gate or to the flush of a pending alert.  (Stated for the peaks that
\* the REAL column holds exactly, for which stored and observed peak are
\* the same number.)
C16_LevelNeverDecreases ==
  [][ \A old \in alert_levels, new \in alert_levels' :
        ( /\ old.user_id = new.user_id
          /\ old.ath_price = new.ath_price
          /\ old.ath_price \in Peaks )
        => new.last_level >= old.last_level ]_vars

\* C17: no threshold alert is delivered to a subscriber for a reference
\* peak and a level for which one was already delivered, by the cycle or by
\* the flush of a pending alert.  (Stated for the peaks that the REAL
\* column holds exactly.)
C17_AtMostOncePerLevel ==
  [][ \A t \in Tasks :
        ( /\ task[t].pc = "send" /\ task'[t].pc = "returned" /\ task'[t].result
          /\ task[t].ath = ToReal(task[t].ath) )
        => AlertKeys(task[t]) \cap alerted = {} ]_vars

\* C18: the decision of check_stock_drop_alerts is true exactly when the
\* current level is at least 5 and the subscriber has no stored alert
\* state, or the observed peak differs from the stored one, or the current
\* level is above the stored last_level.  So it is for the market data and
\* the rows of every state, and the cycle goes on to alert a subscriber,
\* or stores a pending alert for them, only when it is true for them.
C18_DecisionIsShouldAlert ==
  [][ /\ \A u \in Users :
           LET level == CurrentLevel(market.drop_percentage)
               state == GetLastStockAlertLevel(alert_levels, u)
           IN ShouldAlert(level, state, market.ath)
              <=> /\ level >= 5
                  /\ \/ state = {}
                     \/ \E r \in state : r.ath_price # market.ath
                     \/ \E r \in state : level > r.last_level
      /\ \A u \in Users :
           ( \/ /\ task'["stock"] # task["stock"]
                /\ task'["stock"].pc = "tqqq_fetch"
                /\ task'["stock"].user = u
             \/ /\ pending_alerts' # pending_alerts
                /\ GetPendingStockAlert(pending_alerts', u)
                     # GetPendingStockAlert(pending_alerts, u)
                /\ GetPendingStockAlert(pending_alerts', u) # {} )
           => LET level == CurrentLevel(market.drop_percentage)
                  state == GetLastStockAlertLevel(alert_levels, u)
              IN /\ level >= 5
                 /\ \/ state = {}
                    \/ \E r \in state : r.ath_price # market.ath
                    \/ \E r \in state : level > r.last_level ]_vars

\* the cycle alerts a subscriber at a level below the one stored for them,
\* because the peak is a new one
C18_Witness ==
  /\ task["stock"].pc = "tqqq_fetch"
  /\ \E r \in alert_levels :
       /\ r.user_id = task["stock"].user
       /\ r.ath_price = 100
       /\ task["stock"].ath = 111
       /\ r.last_level > task["stock"].level

\* C19: the stock_alert_levels rows change only in the step that follows a
\* successful dispatch of a threshold alert, and the alert cycle then
\* stores for the subscriber the level and the peak it alerted for; after
\* a failed dispatch the rows are as they were (and so is the decision of
\* the next cycle for that level).
C19_PersistOnlyAfterSuccess ==
  [][ /\ alert_levels' # alert_levels
         => \E t \in Tasks :
              /\ task[t].pc = "returned"
              /\ task[t].result
              /\ task[t].site \in {"alert", "flush"}
      /\ ( /\ task["stock"].pc = "returned"
           /\ task["stock"].site = "alert"
           /\ task["stock"].result )
         => /\ GetLastStockAlertLevel(alert_levels', task["stock"].user)
                 = { [user_id |-> task["stock"].user,
                      last_level |-> task["stock"].level,
                      ath_price |-> ToReal(task["stock"].ath)] }
            /\ \A r \in alert_levels :
                 r.user_id # task["stock"].user => r \in alert_levels'
      /\ \A t \in Tasks :
           ( /\ task[t].pc = "returned"
             /\ task[t].site \in {"alert", "flush"}
             /\ ~task[t].result )
           => alert_levels' = alert_levels ]_vars

\* the cycle has delivered an alert and stored its level and peak
C19_Witness ==
  /\ task["stock"].pc = "alert_sleep"
  /\ <<task["stock"].user, task["stock"].ath, task["stock"].level>> \in alerted
  /\ [user_id |-> task["stock"].user, last_level |-> task["stock"].level,
      ath_price |-> ToReal(task["stock"].ath)] \in alert_levels

\* C20: a subscriber never has more than one pending_stock_alerts row, and
\* when the alert cycle gates an alert of a subscriber, with or without a
\* row pending for them, the row they have afterwards holds the level and
\* the peak of the alert gated last.
C20_OnePendingAlert ==
  [][ /\ \A u \in Users : Cardinality(GetPendingStockAlert(pending_alerts', u)) <= 1
      /\ \A u \in Users :
           ( /\ GetPendingStockAlert(pending_alerts', u)
                  # GetPendingStockAlert(pending_alerts, u)
             /\ GetPendingStockAlert(pending_alerts', u) # {} )
           => \A r \in GetPendingStockAlert(pending_alerts', u) :
                /\ r.alert_level = CurrentLevel(market.drop_percentage)
                /\ r.info_ath = market.ath
                /\ r.ath_price = ToReal(market.ath) ]_vars

\* a pending alert that has been overwritten: it was first gated at one
\* level and holds another
C20_Witness ==
  \E r \in pending_alerts : r.created_at # r.alert_level

\* C14: a manual check made while the subscriber's quiet window is active
\* ends the processing of an expression for which the provider returned
\* items (none of them recorded as sent) with a dispatch to the subscriber.
C14_ManualCheckDispatchesInQuietTime ==
  [][ ( /\ task["manual"].pc = "m_fetch_sleep"
        /\ task["manual"].baseLeft = << >>
        /\ \E k \in DOMAIN task["manual"].map : task["manual"].map[k] # << >>
        /\ sent_news = {}
        /\ IsQuietTime(task["manual"].user)
        /\ task'["manual"] # task["manual"] )
      => task'["manual"].pc = "send" ]_vars

C21_NoPendingAfterDelivery ==
  [][ \A t \in Tasks :
        ( /\ task[t].pc = "returned"
          /\ task[t].site \in {"alert", "flush"}
          /\ task[t].result
          /\ task'[t].pc # "returned" )
        => GetPendingStockAlert(pending_alerts', task[t].user) = {} ]_vars

\* C22: a pending alert that is stored for a subscriber whose quiet window
\* is no longer active, because its end has passed or because it was
\* disabled, is eventually flushed: the subscriber's pending_stock_alerts
\* row is removed (which the code does after the successful send and the
\* update of stock_alert_levels).
C22_PendingEventuallyFlushed ==
  \A u \in Users :
    (GetPendingStockAlert(pending_alerts, u) # {} /\ ~IsQuietTime(u))
      ~> (GetPendingStockAlert(pending_alerts, u) = {})

\* C23: is_quiet_time is true exactly when the subscriber has a quiet
\* window that is enabled and the time of day t satisfies start <= t <= end
\* when start <= end, or t >= start or t <= end when start > end; it is
\* false when no window is set or the window is disabled.
C23_QuietTimeFormula ==
  \A u \in Users :
    /\ IsQuietTime(u)
         <=> /\ quiet_hours[u].set
             /\ quiet_hours[u].enabled
             /\ \/ /\ quiet_hours[u].start_time <= quiet_hours[u].end_time
                   /\ quiet_hours[u].start_time <= clock
                   /\ clock <= quiet_hours[u].end_time
                \/ /\ quiet_hours[u].start_time > quiet_hours[u].end_time
                   /\ clock >= quiet_hours[u].start_time \/ clock <= quiet_hours[u].end_time
    /\ (~quiet_hours[u].set \/ ~quiet_hours[u].enabled) => ~IsQuietTime(u)

\* it is quiet time in the part after midnight of a window that passes
\* midnight, while another subscriber's window of the same hours the other
\* way round is not active
C23_Witness ==
  \E u, v \in Users :
    /\ quiet_hours[u].start_time > quiet_hours[u].end_time
    /\ clock <= quiet_hours[u].end_time
    /\ IsQuietTime(u)
    /\ quiet_hours[v].set /\ quiet_hours[v].enabled
    /\ quiet_hours[v].start_time = quiet_hours[u].end_time + 1
    /\ quiet_hours[v].end_time = quiet_hours[u].start_time - 1
    /\ ~IsQuietTime(v)

C25_InvalidNeverRegistered ==
  \A row \in keywords :
    /\ row[2] # << >>
    /\ ~( /\ HasWord(row[2], "and") /\ HasWord(row[2], "or")
          /\ "(" \notin Range(row[2]) )

\* C26: when the deduplicated union of an OR expression exceeds the cap,
\* the batch apply_operation returns holds at least one item of every term
\* whose results are not empty.
C26_EveryTermRepresented ==
  ( /\ call.fn = "apply_operation" /\ call.value # << >>
    /\ call.args[1] = <<"A", "or", "B">>
    /\ Cardinality(UNION { Range(call.args[2][kw]) : kw \in DOMAIN call.args[2] }) > Cap )
    => \A base_kw \in DOMAIN call.args[2] :
         call.args[2][base_kw] # << >>
           => Range(call.args[2][base_kw]) \cap Range(call.value[1].list) # {}

\* C27: when the deduplicated union of an OR expression exceeds the cap,
\* the batch apply_operation returns has exactly Cap items.
C27_AllocationFillsCap ==
  ( /\ call.fn = "apply_operation" /\ call.value # << >>
    /\ call.args[1] = <<"A", "or", "B">>
    /\ Len(RemoveDuplicates(call.args[2][<<"A">>] \o call.args[2][<<"B">>])) > Cap )
    => Len(call.value[1].list) = Cap

\* C28: for every expression (single term, AND, OR) and every pool,
\* apply_operation returns a list, and the list has at most 15 items.
C28_AtMostCapItems ==
  (call.fn = "apply_operation" /\ call.value # << >>)
    => (~call.value[1].none /\ Len(call.value[1].list) <= Cap)

\* C29: the similarity score being symmetric, filter_similar_news returns
\* as many clusters for a list as for every permutation of it.
C29_ClusterCountIgnoresOrder ==
  (call.fn = "filter_similar_news" /\ call.value # << >>) =>
    \A permuted \in Orderings(Range(call.args[1])) :
      Len(FilterSimilarNews(permuted, call.args[2])) = Len(call.value[1])

\* C30: within one scheduled cycle each distinct primitive term is fetched
\* exactly once, whatever the subscribers and expressions that refer to
\* it and whether or not a dispatch is filled with already-seen items:
\* the cycle never calls get_latest_news twice with the same base keyword,
\* and once the fetch loop is over every base keyword has been fetched.
C30_EachTermFetchedOnce ==
  LET tk == task["sched"]
  IN /\ Len(tk.fetched) = Cardinality(Range(tk.fetched))
     /\ (tk.pc # "idle" /\ tk.baseLeft = << >>) => Range(tk.fetched) = DOMAIN tk.map

\* C31: of an expression with a group inside a group, '((A o1 B) o2 C) o3 W',
\* evaluate_keyword_expression returns the standard boolean value: the
\* inner group combined by o1, that value and C combined by o2, that value
\* and W combined by o3, each word standing for its containment in the text.
C31_NestedGroupsAreBoolean ==
  (call.fn = "evaluate_keyword_expression" /\ call.value # << >>
     /\ Len(call.args[1]) = 11) =>
    LET e == call.args[1]
        Has(w) == \E v \in call.args[2] : Lower(v) = Lower(w)
        Combine(op, p, q) == IF Lower(op) = "and" THEN p /\ q ELSE p \/ q
    IN call.value[1] <=>
         Combine(e[10], Combine(e[7], Combine(e[4], Has(e[3]), Has(e[5])), Has(e[8])),
                 Has(e[11]))

\* C32: the base keywords normalize_keyword returns hold no operator word
\* and no parenthesis, they are the same for an operator written in upper
\* case as in lower case, and for an expression without parentheses they
\* are the keywords parse_keyword_expression extracts.
C32_DecompositionIsBareTerms ==
  (call.fn = "normalize_keyword" /\ call.value # << >>) =>
    LET keyword == call.args[1]
        lowered == [n \in DOMAIN keyword |->
                      IF keyword[n] \in {"AND", "OR"} THEN Lower(keyword[n])
                      ELSE keyword[n]]
    IN /\ \A base_kw \in Range(call.value[1]) : \A tok \in Range(base_kw) :
            Lower(tok) \notin {"and", "or", "(", ")"}
       /\ call.value[1] = NormalizeKeyword(lowered)
       /\ "(" \notin Range(keyword)
            => Range(call.value[1]) = Range(ParseKeywordExpression(keyword))

\* C33: when the top-up runs for a list of fewer than 15 unseen items,
\* every item it adds has a row in sent_news for the subscriber and the
\* expression, no seen item it leaves out is more recent than one it adds
\* (of items whose dates parse), the list has at most 15 items, and it has
\* fewer than 15 only if every seen item of the pool is in it.
C33_BackfillSeenNewestFirst ==
  (call.fn = "backfill" /\ call.value # << >> /\ Len(call.args[1]) < Cap) =>
    LET added == Range(call.value[1].added)
        seen  == { i \in Range(call.args[2]) : <<"u1", <<"A">>, i>> \in call.args[3] }
    IN /\ added \subseteq seen
       /\ \A x \in added, y \in seen \ added :
            (DateOf(x) # 0 /\ DateOf(y) # 0) => DateOf(y) <= DateOf(x)
       /\ Len(call.value[1].list) <= Cap
       /\ Len(call.value[1].list) < Cap => seen \subseteq Range(call.value[1].list)

\* C34: filter_similar_news partitions its input: every item of the list
\* is a member of exactly one group, the representative of a group is one
\* of its members, its similar_count is the number of the group's members
\* and at least 1, and the similar_counts add up to the length of the list.
C34_ClustersPartitionInput ==
  (call.fn = "filter_similar_news" /\ call.value # << >>) =>
    LET news_list == call.args[1]
        filtered_news == call.value[1]
        similar_count == call.value[2]
        similar == call.value[3]
        RECURSIVE Sum(_)
        Sum(g) == IF g = 0 THEN 0 ELSE similar_count[g] + Sum(g - 1)
    IN /\ \A n \in DOMAIN news_list :
            Cardinality({ g \in DOMAIN similar : news_list[n] \in Range(similar[g]) }) = 1
       /\ \A g \in DOMAIN similar : Range(similar[g]) \subseteq Range(news_list)
       /\ DOMAIN filtered_news = DOMAIN similar
       /\ \A g \in DOMAIN filtered_news :
            /\ filtered_news[g] \in Range(similar[g])
            /\ similar_count[g] = Len(similar[g])
            /\ similar_count[g] >= 1
       /\ Sum(Len(similar_count)) = Len(news_list)

C34_Witness ==
  /\ call.fn = "filter_similar_news"
  /\ call.args[1] = <<2, 3, 4>>
  /\ call.value = << <<2, 4>>, <<2, 1>>, << <<2, 3>>, <<4>> >> >>

\* C35: a round of the fetch loop of check_news_updates puts into
\* base_news_map, for its base keyword, either the empty list (the request
\* failed) or what the provider serves for it, leaves the lists of all
\* other base keywords as they are and goes on with the next base keyword;
\* when the loop is over every base keyword has its list, and the cycle
\* is about to process the subscribers.
C35_FetchFailureIsolated ==
  [][ LET tk == task["sched"]
          after == task'["sched"]
      IN (tk.pc = "fetch_sleep" /\ tk.baseLeft # << >> /\ after # tk) =>
           /\ after.pc = "fetch_sleep"
           /\ after.baseLeft = Tail(tk.baseLeft)
           /\ after.usersLeft = tk.usersLeft
           /\ DOMAIN after.map = DOMAIN tk.map \cup {Head(tk.baseLeft)}
           /\ after.map[Head(tk.baseLeft)] \in
                { << >>, GetLatestNewsFor(Head(tk.baseLeft), Cap, {}) }
           /\ \A base_kw \in DOMAIN tk.map \ {Head(tk.baseLeft)} :
                after.map[base_kw] = tk.map[base_kw]
           /\ after.baseLeft = << >> =>
                DOMAIN after.map = UNION { Range(NormalizeKeyword(keyword)) :
                                            keyword \in UNION { Range(row[2]) :
                                                                  row \in Range(tk.usersLeft) } }
    ]_vars

\* the request for A has failed, the one for B has not, and the fetch loop
\* is over
C35_Witness ==
  LET tk == task["sched"]
  IN /\ tk.pc = "fetch_sleep" /\ tk.baseLeft = << >> /\ tk.usersLeft # << >>
     /\ tk.fetched = << <<"A">>, <<"B">> >>
     /\ tk.map[<<"A">>] = << >>
     /\ GetLatestNewsFor(<<"A">>, Cap, {}) # << >>
     /\ tk.map[<<"B">>] # << >>
     /\ tk.map[<<"B">>] = GetLatestNewsFor(<<"B">>, Cap, {})

\* C36: whenever the scheduled cycle passes a subscriber by, on its way to
\* the next dispatch or to its end, that subscriber is in quiet time, or
\* has no unseen item for any of their expressions, or is one whose own
\* processing raised: neither a failed dispatch nor an exception for one
\* subscriber keeps the cycle from dispatching to the others.
C36_OtherSubscribersStillDispatched ==
  [][ LET tk == task["sched"]
          after == task'["sched"]
          passed == { row \in Range(tk.usersLeft) \ Range(after.usersLeft) :
                        row[1] # after.user }
          Raises(row) == \E kw \in Range(row[2]) : ApplyOperation(kw, tk.map, {}).none
          Unseen(row) ==
            \E kw \in Range(row[2]) :
              \E i \in Range(ApplyOperation(kw, tk.map, {}).list) :
                ~IsNewsSent(sent_news, row[1], kw, i)
      IN (tk.pc # "idle" /\ after # tk) =>
           \A row \in passed :
             (~Raises(row) /\ ~IsQuietTime(row[1])) => ~Unseen(row)
    ]_vars

\* u1, whose expression 'A or B' was fetched for in this cycle, has been
\* marked blocked by a failed dispatch of the cycle, and the cycle now
\* dispatches to u2
C36_Witness ==
  LET tk == task["sched"]
  IN /\ tk.pc = "send" /\ tk.user = "u2" /\ tk.batch # << >>
     /\ <<"A">> \in DOMAIN tk.map
     /\ "u1" \in blocked_users

\* C37: once the fetch loop of a cycle is over, base_news_map is
\* read-only: until the cycle ends, processing the subscribers changes no
\* list of it and no item of its lists.
C37_PoolIsReadOnly ==
  [][ LET tk == task["sched"]
          after == task'["sched"]
      IN (tk.pc # "idle" /\ tk.baseLeft = << >> /\ after.pc # "idle") =>
           /\ after.map = tk.map
           /\ after.item_keyword = tk.item_keyword
    ]_vars

\* C38: no threshold alert is ever on its way to a subscriber whose alert
\* setting is disabled, whether the scheduled cycle sends it or the
\* quiet:off handler flushes a pending alert.
C38_DisabledNeverAlerted ==
  \A t \in {"stock", "manual"} :
    (task[t].pc = "send" /\ task[t].site \in {"alert", "flush"})
      => GetNasdaqAlertSetting(task[t].user)

\* C39: send_message_to_user reports every outcome as a value: no call
\* ends with an exception on its way to the caller, a call that has ended
\* has returned True or False, and it has returned True only when its last
\* transport send succeeded.
C39_EveryOutcomeIsAValue ==
  \A t \in Tasks :
    /\ task[t].pc # "raised"
    /\ task[t].pc = "returned" =>
          /\ task[t].result \in BOOLEAN
          /\ task[t].log # << >>
          /\ task[t].result <=> task[t].log[Len(task[t].log)] = "ok"

\* C40: no item occurs twice in a batch that _send_news_to_user dispatches,
\* whichever of the two fills with already-seen items have produced it.
C40_NoItemTwiceInBatch ==
  \A t \in Tasks :
    (task[t].pc = "send" /\ task[t].site = "new")
      => \A j, k \in DOMAIN task[t].batch :
            task[t].batch[j] = task[t].batch[k] => j = k

====
